---- MODULE Spec2Model ----
(***************************************************************************)
(* Verification model of the mina-indexer store, re-org resolver, ledger   *)
(* engine and witness tree.                                                *)
(***************************************************************************)
EXTENDS Integers, Sequences, FiniteSets, TLC

VARIABLES
    db,         \* the key-value store: one map per column family
    tree,       \* the in-memory witness tree
    status,     \* "running" | "aborted" (a panic ends the writer task)
    lastOp,     \* the operation performed by the last step, with its inputs
    appended,   \* history: events in the order add_event appended them
    pending,    \* writes of the in-flight store operation not yet issued
    failures,   \* number of store-write failures injected so far
    tipChanges, \* number of direct set_best_block calls so far
    lg          \* ledger engine: [ledger, diff, before, pc]

vars == <<db, tree, status, lastOp, appended, pending, failures, tipChanges, lg>>

-----------------------------------------------------------------------------
(* Bounds of the model *)

MaxBestTipChanges == 2
MaxFailures == 1
MaxBlocks == 3

-----------------------------------------------------------------------------
(* Program constants *)

MAINNET_GENESIS_HASH == "3NKeMonc"
MAINNET_GENESIS_PREV_STATE_HASH == "3NLoKn22"

None == [some |-> FALSE]
Some(v) == [some |-> TRUE, v |-> v]

-----------------------------------------------------------------------------
(* Generic helpers *)

Min(a, b) == IF a < b THEN a ELSE b
Max(a, b) == IF a > b THEN a ELSE b

saturating_sub(a, b) == IF a < b THEN 0 ELSE a - b

EmptyMap == <<>>
Put(m, k, v) == (k :> v) @@ m
Del(m, k) == [x \in (DOMAIN m) \ {k} |-> m[x]]
Has(m, k) == k \in DOMAIN m
Get(m, k) == IF k \in DOMAIN m THEN Some(m[k]) ELSE None
GetOr(m, k, dflt) == IF k \in DOMAIN m THEN m[k] ELSE dflt

RECURSIVE Reverse(_)
Reverse(s) == IF s = <<>> THEN <<>> ELSE Reverse(Tail(s)) \o <<Head(s)>>

Contains(s, x) == \E i \in 1..Len(s) : s[i] = x

-----------------------------------------------------------------------------
(* Byte encodings used in keys *)

\* n.to_be_bytes() for a w-byte unsigned integer
RECURSIVE to_be_bytes_w(_, _)
to_be_bytes_w(n, w) ==
    IF w = 0 THEN <<>> ELSE to_be_bytes_w(n \div 256, w - 1) \o <<n % 256>>

to_be_bytes(n) == to_be_bytes_w(n, 4)

RECURSIVE from_be_bytes(_)
from_be_bytes(bs) ==
    IF bs = <<>> THEN 0 ELSE from_be_bytes(SubSeq(bs, 1, Len(bs) - 1)) * 256 + bs[Len(bs)]

\* byte-lexicographic order of the store's iterators
RECURSIVE LexLess(_, _)
LexLess(x, y) ==
    IF x = <<>> THEN y # <<>>
    ELSE IF y = <<>> THEN FALSE
    ELSE IF Head(x) # Head(y) THEN Head(x) < Head(y)
    ELSE LexLess(Tail(x), Tail(y))

HexDigit == <<"0", "1", "2", "3", "4", "5", "6", "7", "8", "9", "a", "b", "c", "d", "e", "f">>

RECURSIVE BytesKey(_)
BytesKey(bs) ==
    IF bs = <<>> THEN ""
    ELSE "\\x" \o HexDigit[(Head(bs) \div 16) + 1] \o HexDigit[(Head(bs) % 16) + 1]
         \o BytesKey(Tail(bs))

-----------------------------------------------------------------------------
(* Public keys and blocks the environment can hand to the indexer *)

PublicKeys == {"B62a", "B62b", "B62c"}

\* byte order of the public key strings
PkRank(pk) == CASE pk = "B62a" -> 1 [] pk = "B62b" -> 2 [] pk = "B62c" -> 3

Credit(pk, amount) == [tag |-> "Payment", update_type |-> "Credit", public_key |-> pk, amount |-> amount]
Debit(pk, amount) == [tag |-> "Payment", update_type |-> "Debit", public_key |-> pk, amount |-> amount]
CreateAccount(pk) == [tag |-> "CreateAccount", public_key |-> pk]
RemoveAccount(pk) == [tag |-> "RemoveAccount", public_key |-> pk]

GenesisLedgerBalances == [B62a |-> 300, B62b |-> 5]

PrecomputedBlock(sh, prev, len, slot, creator, rank, pks, ups) ==
    [state_hash |-> sh, previous_state_hash |-> prev, blockchain_length |-> len,
     global_slot_since_genesis |-> slot, epoch_count |-> 0, block_creator |-> creator,
     coinbase_receiver |-> creator, comparison |-> rank, all_public_keys |-> pks,
     balance_updates |-> ups]

GenesisBlock ==
    PrecomputedBlock(MAINNET_GENESIS_HASH, MAINNET_GENESIS_PREV_STATE_HASH, 1, 0, "B62a", 0,
                     <<"B62a">>, <<>>)

Blocks == {
    GenesisBlock,
    PrecomputedBlock("3NA1", MAINNET_GENESIS_HASH, 2, 1, "B62a", 1, <<"B62a", "B62b", "B62c">>,
        <<Credit("B62a", 2), CreateAccount("B62c"), Credit("B62c", 3), Debit("B62b", 3)>>),
    PrecomputedBlock("3NA2", "3NA1", 3, 2, "B62b", 2, <<"B62a", "B62b", "B62c">>,
        <<Credit("B62b", 2), Debit("B62c", 1), Credit("B62a", 1)>>),
    PrecomputedBlock("3NA3", "3NA2", 4, 4, "B62a", 3, <<"B62a">>,
        <<Credit("B62a", 2)>>),
    PrecomputedBlock("3NA4", "3NA3", 5, 5, "B62a", 4, <<"B62a", "B62b", "B62c">>,
        <<Credit("B62a", 2), Debit("B62b", 1), Credit("B62c", 1)>>),
    PrecomputedBlock("3NB2", "3NA1", 3, 3, "B62b", 5, <<"B62a", "B62b", "B62c">>,
        <<Credit("B62b", 2), Debit("B62a", 256), Credit("B62c", 256)>>),
    PrecomputedBlock("3NC1", MAINNET_GENESIS_HASH, 2, 2, "B62b", 0, <<"B62b", "B62c">>,
        <<Credit("B62b", 2), CreateAccount("B62c"), Credit("B62c", 1), Debit("B62b", 1)>>)
}

StateHashes == {b.state_hash : b \in Blocks}
BlockOf(sh) == CHOOSE b \in Blocks : b.state_hash = sh

\* byte order of the state hash strings
HashRank(sh) ==
    CASE sh = "3NA1" -> 1 [] sh = "3NA2" -> 2 [] sh = "3NA3" -> 3 [] sh = "3NA4" -> 4
      [] sh = "3NB2" -> 5 [] sh = "3NC1" -> 6 [] sh = MAINNET_GENESIS_HASH -> 7
      [] OTHER -> 8

-----------------------------------------------------------------------------
(* The store: column families and primitive writes *)

BEST_TIP_STATE_HASH_KEY == "best_tip_block"
TOTAL_NUM_ACCOUNTS_KEY == "total_num_accounts"
TOTAL_NUM_BLOCKS_KEY == "total_num_blocks"
NEXT_EVENT_SEQ_NUM_KEY == "next_event_sequence_number"

ColumnFamilies == {
    "default", "blocks", "block_epoch", "block_comparison", "block_height",
    "block_parent_hash", "block_genesis_state_hash", "block_global_slot_to_heights",
    "block_height_to_global_slots", "block_coinbase_receiver", "account_balance_updates",
    "blocks_height_sort", "blocks_global_slot_sort", "blocks_at_height",
    "blocks_at_global_slot", "block_version", "user_commands", "internal_commands",
    "snark_work", "block_production_pk_epoch", "block_production_pk_total",
    "block_production_epoch", "account_balance", "account_balance_sort", "events",
    "canonicity", "canonical_at_height"}

EmptyStore == [cf \in ColumnFamilies |-> EmptyMap]

PutCf(cf, k, v) == [cf |-> cf, key |-> k, del |-> FALSE, val |-> v]
DeleteCf(cf, k) == [cf |-> cf, key |-> k, del |-> TRUE]

ApplyWrite(d, w) ==
    IF w.del THEN [d EXCEPT ![w.cf] = Del(@, w.key)]
    ELSE [d EXCEPT ![w.cf] = Put(@, w.key, w.val)]

RECURSIVE ApplyWrites(_, _)
ApplyWrites(d, ws) ==
    IF ws = <<>> THEN d ELSE ApplyWrites(ApplyWrite(d, Head(ws)), Tail(ws))

\* A run of store operations on one thread: d is the store as the operations so far
\* left it, ws the writes they issued in order, ok whether the thread is still alive.
\* A store method takes the run and returns the run after its own writes.
Begin(d) == [d |-> d, ws |-> <<>>, ok |-> TRUE]
Write(s, ws) ==
    IF s.ok THEN [d |-> ApplyWrites(s.d, ws), ws |-> s.ws \o ws, ok |-> TRUE] ELSE s
Abort(s) == [s EXCEPT !.ok = FALSE]

u32_prefix_key(n, suffix) == <<to_be_bytes(n), suffix>>
u64_prefix_key(n, suffix) == <<to_be_bytes_w(n, 8), suffix>>

-----------------------------------------------------------------------------
(* Event store *)

\* variant: the event names the parent instead of the block
NewBlock_parent_hash(block) ==
    [tag |-> "NewBlock", state_hash |-> block.previous_state_hash,
     blockchain_length |-> block.blockchain_length]

NewBlock(block) ==
    [tag |-> "NewBlock", state_hash |-> block.state_hash,
     blockchain_length |-> block.blockchain_length]
NewBestTip(sh, len) == [tag |-> "NewBestTip", state_hash |-> sh, blockchain_length |-> len]
NewCanonicalBlock(sh, len) ==
    [tag |-> "NewCanonicalBlock", state_hash |-> sh, blockchain_length |-> len]

get_next_seq_num(d) == GetOr(d["default"], NEXT_EVENT_SEQ_NUM_KEY, 0)

\* variant: the next sequence number is not advanced
add_event_same_seq(s, event) ==
    Write(s, << PutCf("events", to_be_bytes(get_next_seq_num(s.d)), event) >>)

add_event(s, event) ==
    LET seq_num == get_next_seq_num(s.d) IN
    Write(s, << PutCf("events", to_be_bytes(seq_num), event),
                PutCf("default", NEXT_EVENT_SEQ_NUM_KEY, seq_num + 1) >>)

\* the events a list of writes appends, in order
RECURSIVE EventsOf(_)
EventsOf(ws) ==
    IF ws = <<>> THEN <<>>
    ELSE (IF Head(ws).cf = "events" /\ ~Head(ws).del THEN <<Head(ws).val>> ELSE <<>>)
         \o EventsOf(Tail(ws))

\* the event log as an iterator over the events column family yields it
RECURSIVE SortKeys(_)
SortKeys(ks) ==
    IF ks = {} THEN <<>>
    ELSE LET k == CHOOSE x \in ks : \A y \in ks \ {x} : LexLess(x, y)
         IN <<k>> \o SortKeys(ks \ {k})

EventLog(d) ==
    LET ks == SortKeys(DOMAIN d["events"]) IN [i \in 1..Len(ks) |-> d["events"][ks[i]]]

-----------------------------------------------------------------------------
(* Block store *)

get_block_height(d, sh) == Get(d["block_height"], sh)
get_block_parent_hash(d, sh) == Get(d["block_parent_hash"], sh)
get_best_block_hash(d) == Get(d["default"], BEST_TIP_STATE_HASH_KEY)
get_block_balance_updates(d, sh) == Get(d["account_balance_updates"], sh)

set_block_epoch(sh, epoch) == <<PutCf("block_epoch", sh, to_be_bytes(epoch))>>
set_block_comparison(sh, cmp) == <<PutCf("block_comparison", sh, cmp)>>
set_block_height(sh, len) == <<PutCf("block_height", sh, len)>>
set_block_parent_hash(sh, prev) == <<PutCf("block_parent_hash", sh, prev)>>
set_block_genesis_state_hash(sh, gen) == <<PutCf("block_genesis_state_hash", sh, gen)>>
set_coinbase_receiver(sh, pk) == <<PutCf("block_coinbase_receiver", sh, pk)>>
set_block_balance_updates(sh, ups) == <<PutCf("account_balance_updates", sh, ups)>>
set_block_version(sh) == <<PutCf("block_version", sh, "V1")>>
add_user_commands(block) == <<PutCf("user_commands", block.state_hash, block.state_hash)>>
add_internal_commands(block) == <<PutCf("internal_commands", block.state_hash, block.state_hash)>>
add_snark_work(block) == <<PutCf("snark_work", block.state_hash, block.state_hash)>>

get_block_production_pk_epoch_count(d, pk, epoch) ==
    GetOr(d["block_production_pk_epoch"], u32_prefix_key(epoch, pk), 0)
get_block_production_pk_total_count(d, pk) == GetOr(d["block_production_pk_total"], pk, 0)
get_block_production_epoch_count(d, epoch) ==
    GetOr(d["block_production_epoch"], to_be_bytes(epoch), 0)
get_block_production_total_count(d) == GetOr(d["default"], TOTAL_NUM_BLOCKS_KEY, 0)

increment_block_production_count(s, block) ==
    LET creator == block.block_creator
        epoch == block.epoch_count
    IN Write(s,
        << PutCf("block_production_pk_epoch", u32_prefix_key(epoch, creator),
                 get_block_production_pk_epoch_count(s.d, creator, epoch) + 1),
           PutCf("block_production_pk_total", creator,
                 get_block_production_pk_total_count(s.d, creator) + 1),
           PutCf("block_production_epoch", to_be_bytes(epoch),
                 get_block_production_epoch_count(s.d, epoch) + 1),
           PutCf("default", TOTAL_NUM_BLOCKS_KEY,
                 get_block_production_total_count(s.d) + 1) >>)

\* reads the height -> slots column family with a slot key
get_block_heights_from_global_slot(d, global_slot) ==
    Get(d["block_height_to_global_slots"], to_be_bytes(global_slot))

\* reads the slot -> heights column family with a height key
get_global_slots_from_height(d, len) ==
    Get(d["block_global_slot_to_heights"], to_be_bytes(len))

\* Vec::sort on a vector without repeated elements
SortInts(v) ==
    LET vals == {v[i] : i \in 1..Len(v)} IN
    [i \in 1..Cardinality(vals) |->
        CHOOSE x \in vals : Cardinality({y \in vals : y < x}) = i - 1]

\* add slot to height's "slot collection"
add_height_to_slot_collection(s, len, global_slot) ==
    LET h0 == get_block_heights_from_global_slot(s.d, global_slot)
        heights == IF h0.some THEN h0.v ELSE <<>>
    IN IF ~Contains(heights, len)
       THEN Write(s, <<PutCf("block_global_slot_to_heights", to_be_bytes(global_slot),
                             SortInts(Append(heights, len)))>>)
       ELSE s

\* add height to slot's "height collection"
add_slot_to_height_collection(s, len, global_slot) ==
    LET g0 == get_global_slots_from_height(s.d, len)
        slots == IF g0.some THEN g0.v ELSE <<>>
    IN IF ~Contains(slots, global_slot)
       THEN Write(s, <<PutCf("block_height_to_global_slots", to_be_bytes(len),
                             SortInts(Append(slots, global_slot)))>>)
       ELSE s

set_block_height_global_slot_pair(s, len, global_slot) ==
    add_slot_to_height_collection(
        add_height_to_slot_collection(s, len, global_slot), len, global_slot)

block_height_key(block) == <<to_be_bytes(block.blockchain_length), block.state_hash>>
block_global_slot_key(block) == <<to_be_bytes(block.global_slot_since_genesis), block.state_hash>>

\* the per-key count and list live in the blocks column family
get_num_blocks_at_public_key(d, pk) == GetOr(d["blocks"], pk, 0)

add_block_at_public_key(s, pk, sh) ==
    LET n == get_num_blocks_at_public_key(s.d, pk) IN
    Write(s, << PutCf("blocks", pk, n + 1),
                PutCf("blocks", pk \o "-" \o ToString(n), sh) >>)

RECURSIVE add_block_at_public_keys(_, _, _)
add_block_at_public_keys(s, pks, sh) ==
    IF pks = <<>> THEN s
    ELSE add_block_at_public_keys(add_block_at_public_key(s, Head(pks), sh), Tail(pks), sh)

get_num_blocks_at_height(d, len) == GetOr(d["blocks_at_height"], BytesKey(to_be_bytes(len)), 0)

add_block_at_height(s, sh, len) ==
    LET n == get_num_blocks_at_height(s.d, len) IN
    Write(s, << PutCf("blocks_at_height", BytesKey(to_be_bytes(len)), n + 1),
                PutCf("blocks_at_height", ToString(len) \o "-" \o ToString(n), sh) >>)

get_num_blocks_at_slot(d, slot) ==
    GetOr(d["blocks_at_global_slot"], BytesKey(to_be_bytes(slot)), 0)

add_block_at_slot(s, sh, slot) ==
    LET n == get_num_blocks_at_slot(s.d, slot) IN
    Write(s, << PutCf("blocks_at_global_slot", BytesKey(to_be_bytes(slot)), n + 1),
                PutCf("blocks_at_global_slot", ToString(slot) \o "-" \o ToString(n), sh) >>)

block_present(d, sh) == Has(d["blocks"], sh)

\* the body of add_block for a block that is not present: one write after the other
add_block_writes(s, block) ==
    LET sh == block.state_hash
        s1 == Write(s, <<PutCf("blocks", sh, block)>>
                       \o set_block_epoch(sh, block.epoch_count))
        s2 == increment_block_production_count(s1, block)
        s3 == Write(s2, set_block_comparison(sh, block.comparison)
                        \o set_block_height(sh, block.blockchain_length)
                        \o set_block_parent_hash(sh, block.previous_state_hash)
                        \o set_block_genesis_state_hash(sh, MAINNET_GENESIS_HASH))
        s4 == set_block_height_global_slot_pair(
                  s3, block.blockchain_length, block.global_slot_since_genesis)
        s5 == Write(s4, set_coinbase_receiver(sh, block.coinbase_receiver)
                        \o set_block_balance_updates(sh, block.balance_updates)
                        \o <<PutCf("blocks_height_sort", block_height_key(block), ""),
                             PutCf("blocks_global_slot_sort", block_global_slot_key(block), "")>>)
        s6 == add_block_at_public_keys(s5, block.all_public_keys, sh)
        s7 == add_block_at_height(s6, sh, block.blockchain_length)
        s8 == add_block_at_slot(s7, sh, block.global_slot_since_genesis)
        s9 == Write(s8, set_block_version(sh) \o add_user_commands(block)
                        \o add_internal_commands(block) \o add_snark_work(block))
    IN add_event(s9, NewBlock(block))

\* variant: no check for a present block
add_block_unchecked(s, block) == add_block_writes(s, block)

\* add_block: a present block is a no-op
add_block(s, block) ==
    IF block_present(s.d, block.state_hash) THEN s ELSE add_block_writes(s, block)

-----------------------------------------------------------------------------
(* Account store *)

Ok(v) == [ok |-> TRUE, v |-> v]
Panic(msg) == [ok |-> FALSE, panic |-> msg]

get_account_balance(d, pk) == Get(d["account_balance"], pk)

\* variant: the stale sort key of an existing account is left in place
update_account_balance_keep_stale(s, pk, balance) ==
    IF ~balance.some
    THEN LET b == GetOr(s.d["account_balance"], pk, 0) IN
         Write(s, << DeleteCf("account_balance", pk),
                     DeleteCf("account_balance_sort", u64_prefix_key(b, pk)) >>)
    ELSE Write(s, << PutCf("account_balance", pk, balance.v),
                     PutCf("account_balance_sort", u64_prefix_key(balance.v, pk), "") >>)

\* update_account_balance: balance is None (remove the account) or Some(u64)
update_account_balance(s, pk, balance) ==
    IF ~balance.some
    THEN LET b == GetOr(s.d["account_balance"], pk, 0) IN
         Write(s, << DeleteCf("account_balance", pk),
                     DeleteCf("account_balance_sort", u64_prefix_key(b, pk)) >>)
    ELSE LET old == get_account_balance(s.d, pk) IN
         Write(s, (IF old.some
                   THEN <<DeleteCf("account_balance_sort", u64_prefix_key(old.v, pk))>>
                   ELSE <<>>)
                  \o << PutCf("account_balance", pk, balance.v),
                        PutCf("account_balance_sort", u64_prefix_key(balance.v, pk), "") >>)

get_num_accounts(d) == Get(d["default"], TOTAL_NUM_ACCOUNTS_KEY)

update_num_accounts(s, adjust) ==
    LET old == GetOr(s.d["default"], TOTAL_NUM_ACCOUNTS_KEY, 0) IN
    IF adjust = 0 THEN s
    ELSE IF adjust > 0 THEN Write(s, <<PutCf("default", TOTAL_NUM_ACCOUNTS_KEY, old + adjust)>>)
    ELSE Write(s, <<PutCf("default", TOTAL_NUM_ACCOUNTS_KEY, saturating_sub(old, -adjust))>>)

\* a count that takes no account of removals
RECURSIVE count_creations_only(_)
count_creations_only(updates) ==
    IF updates = <<>> THEN 0
    ELSE count_creations_only(SubSeq(updates, 1, Len(updates) - 1))
         + (IF updates[Len(updates)].tag = "CreateAccount" THEN 1 ELSE 0)

RECURSIVE count(_)
count(updates) ==
    IF updates = <<>> THEN 0
    ELSE count(SubSeq(updates, 1, Len(updates) - 1))
         + (CASE updates[Len(updates)].tag = "CreateAccount" -> 1
              [] updates[Len(updates)].tag = "RemoveAccount" -> -1
              [] OTHER -> 0)

\* net effect of a list of updates on one key: [delta, removed]
RECURSIVE net_update(_, _, _, _)
net_update(updates, pk, inverse, acc) ==
    IF updates = <<>> THEN acc
    ELSE LET u == Head(updates)
             sign == IF inverse THEN -1 ELSE 1
             next ==
                 IF u.public_key # pk THEN acc
                 ELSE IF u.tag = "Payment"
                 THEN [acc EXCEPT !.delta = @ + sign * (IF u.update_type = "Credit"
                                                         THEN u.amount ELSE -u.amount)]
                 ELSE [acc EXCEPT !.removed = (u.tag = "CreateAccount") = inverse]
         IN net_update(Tail(updates), pk, inverse, next)

UpdatedKeys(updates) == {updates[i].public_key : i \in 1..Len(updates)}

\* DBAccountBalanceUpdate::balance_updates: per key, Some(signed delta) or None (remove);
\* the unapply list is inverted, then the apply list is added
balance_updates(updates) ==
    LET keys == UpdatedKeys(updates.apply) \cup UpdatedKeys(updates.unapply)
        net(pk) == net_update(updates.apply, pk, FALSE,
                       net_update(updates.unapply, pk, TRUE, [delta |-> 0, removed |-> FALSE]))
    IN [pk \in keys |-> IF net(pk).removed THEN None ELSE Some(net(pk).delta)]

KeysInOrder(keys) ==
    [i \in 1..Cardinality(keys) |->
        CHOOSE pk \in keys : Cardinality({q \in keys : PkRank(q) < PkRank(pk)}) = i - 1]

RECURSIVE update_balances_loop(_, _, _)
update_balances_loop(s, net, pks) ==
    IF pks = <<>> THEN s
    ELSE LET pk == Head(pks)
             amount == net[pk]
             balance == GetOr(s.d["account_balance"], pk, 0)
             new_balance == IF amount.v > 0 THEN balance + amount.v
                            ELSE saturating_sub(balance, -amount.v)
         IN update_balances_loop(
                IF amount.some THEN update_account_balance(s, pk, Some(new_balance))
                ELSE update_account_balance(s, pk, None),
                net, Tail(pks))

update_account_balances(s, state_hash, updates) ==
    LET net == balance_updates(updates) IN
    update_balances_loop(
        update_num_accounts(s, count(updates.apply) - count(updates.unapply)),
        net, KeysInOrder(DOMAIN net))

\* bring b back to the same height as a: at most n steps, stop at genesis
RECURSIVE align_new_tip(_, _, _, _)
align_new_tip(d, b, apply, n) ==
    IF n = 0 \/ b = MAINNET_GENESIS_HASH THEN Ok([b |-> b, apply |-> apply])
    ELSE LET ups == get_block_balance_updates(d, b)
             prev == get_block_parent_hash(d, b)
         IN IF ~ups.some THEN Panic("called unwrap on None")
            ELSE IF ~prev.some THEN Panic("b has a parent")
            ELSE align_new_tip(d, prev.v, apply \o ups.v, n - 1)

\* find the common ancestor
RECURSIVE find_common_ancestor(_, _, _, _, _)
find_common_ancestor(d, a, b, apply, unapply) ==
    LET a_prev == get_block_parent_hash(d, a)
        b_prev == get_block_parent_hash(d, b)
        ua == get_block_balance_updates(d, a)
        ub == get_block_balance_updates(d, b)
    IN IF ~a_prev.some THEN Panic("a has a parent")
       ELSE IF ~b_prev.some THEN Panic("b has a parent")
       ELSE IF a = b \/ a = MAINNET_GENESIS_HASH
       THEN Ok([apply |-> Reverse(apply), unapply |-> unapply])
       ELSE IF ~ua.some \/ ~ub.some THEN Panic("called unwrap on None")
       ELSE find_common_ancestor(d, a_prev.v, b_prev.v, apply \o ub.v, unapply \o ua.v)

reorg_account_balance_updates(d, old_best_tip, new_best_tip) ==
    LET a_length == get_block_height(d, old_best_tip)
        b_length == get_block_height(d, new_best_tip)
    IN IF ~a_length.some THEN Panic("a has a length")
       ELSE IF ~b_length.some THEN Panic("b has a length")
       ELSE LET r == align_new_tip(d, new_best_tip, <<>>,
                                   saturating_sub(b_length.v, a_length.v))
            IN IF ~r.ok THEN r
               ELSE find_common_ancestor(d, old_best_tip, r.v.b, r.v.apply, <<>>)

\* record new best tip event
record_best_tip_event(s, state_hash) ==
    LET len == get_block_height(s.d, state_hash) IN
    IF len.some THEN add_event(s, NewBestTip(state_hash, len.v)) ELSE s

\* variant: no NewBestTip event
set_best_block_no_event(s, state_hash) ==
    LET old == get_best_block_hash(s.d) IN
    IF old.some /\ old.v = state_hash THEN s
    ELSE LET r == IF old.some THEN reorg_account_balance_updates(s.d, old.v, state_hash)
                  ELSE Ok([apply |-> <<>>, unapply |-> <<>>])
         IN IF ~r.ok THEN Abort(s)
            ELSE Write(IF old.some THEN update_account_balances(s, state_hash, r.v) ELSE s,
                       <<PutCf("default", BEST_TIP_STATE_HASH_KEY, state_hash)>>)

\* set_best_block: a panic of the re-org resolver ends the thread before any write
set_best_block(s, state_hash) ==
    LET old == get_best_block_hash(s.d) IN
    IF old.some /\ old.v = state_hash THEN s
    ELSE LET r == IF old.some THEN reorg_account_balance_updates(s.d, old.v, state_hash)
                  ELSE Ok([apply |-> <<>>, unapply |-> <<>>])
         IN IF ~r.ok THEN Abort(s)
            ELSE record_best_tip_event(
                     Write(IF old.some THEN update_account_balances(s, state_hash, r.v) ELSE s,
                           <<PutCf("default", BEST_TIP_STATE_HASH_KEY, state_hash)>>),
                     state_hash)

-----------------------------------------------------------------------------
(* Canonicity store *)

add_canonical_block(s, len, sh) ==
    add_event(Write(s, << PutCf("canonical_at_height", to_be_bytes(len), sh),
                          PutCf("canonicity", sh, "Canonical") >>),
              NewCanonicalBlock(sh, len))

RECURSIVE add_canonical_blocks(_, _)
add_canonical_blocks(s, shs) ==
    IF shs = <<>> THEN s
    ELSE add_canonical_blocks(
             add_canonical_block(s, BlockOf(Head(shs)).blockchain_length, Head(shs)),
             Tail(shs))

-----------------------------------------------------------------------------
(* Witness tree *)

canonical_threshold == 2
canonical_update_threshold == 2
prune_interval == 1

\* a branch: its root and, per node, the root-relative height in the tree
Branch(block) == [root |-> block.state_hash, nodes |-> (block.state_hash :> 0)]

InBranch(branch, sh) == sh \in DOMAIN branch.nodes
parent(sh) == BlockOf(sh).previous_state_hash
Length(sh) == BlockOf(sh).blockchain_length

extend(branch, block) ==
    [branch EXCEPT !.nodes = Put(@, block.state_hash, @[block.previous_state_hash] + 1)]

\* variant: the spliced nodes keep the heights they had in the dangling branch
merge_on_unrebased(branch, dangling) ==
    [branch EXCEPT !.nodes =
        [sh \in (DOMAIN @) \cup (DOMAIN dangling.nodes) |->
            IF sh \in DOMAIN dangling.nodes THEN dangling.nodes[sh] ELSE @[sh]]]

\* splice the nodes of a dangling branch under the parent of its root
merge_on(branch, dangling) ==
    LET base == branch.nodes[parent(dangling.root)] + 1 IN
    [branch EXCEPT !.nodes =
        [sh \in (DOMAIN @) \cup (DOMAIN dangling.nodes) |->
            IF sh \in DOMAIN dangling.nodes THEN base + dangling.nodes[sh] ELSE @[sh]]]

RemoveAt(s, i) == SubSeq(s, 1, i - 1) \o SubSeq(s, i + 1, Len(s))

\* variant: one dangling branch is spliced into the root branch, and no more
merge_dangling_once(t) ==
    LET ds == t.dangling_branches
        intoRoot == {i \in 1..Len(ds) : InBranch(t.root_branch, parent(ds[i].root))}
    IN IF intoRoot # {}
       THEN LET i == CHOOSE x \in intoRoot : \A y \in intoRoot : x <= y IN
            [t EXCEPT !.root_branch = merge_on(@, ds[i]),
                      !.dangling_branches = RemoveAt(@, i)]
       ELSE t

\* splice every dangling branch whose root's parent is now in the tree, until none is left
RECURSIVE merge_dangling(_)
merge_dangling(t) ==
    LET ds == t.dangling_branches
        intoRoot == {i \in 1..Len(ds) : InBranch(t.root_branch, parent(ds[i].root))}
        intoDangling == {i \in 1..Len(ds) :
                            \E j \in 1..Len(ds) : j # i /\ InBranch(ds[j], parent(ds[i].root))}
    IN IF intoRoot # {}
       THEN LET i == CHOOSE x \in intoRoot : \A y \in intoRoot : x <= y IN
            merge_dangling([t EXCEPT !.root_branch = merge_on(@, ds[i]),
                                     !.dangling_branches = RemoveAt(@, i)])
       ELSE IF intoDangling # {}
       THEN LET i == CHOOSE x \in intoDangling : \A y \in intoDangling : x <= y
                j == CHOOSE x \in 1..Len(ds) : x # i /\ InBranch(ds[x], parent(ds[i].root))
            IN merge_dangling([t EXCEPT !.dangling_branches =
                                   RemoveAt([@ EXCEPT ![j] = merge_on(@, ds[i])], i)])
       ELSE t

leaves(branch) == {sh \in DOMAIN branch.nodes : \A c \in DOMAIN branch.nodes : parent(c) # sh}

\* tip selection: longer chain, then larger comparison key, then greater state hash
better(x, y) ==
    LET bx == BlockOf(x)
        by == BlockOf(y)
    IN IF bx.blockchain_length # by.blockchain_length
       THEN bx.blockchain_length > by.blockchain_length
       ELSE IF bx.comparison # by.comparison THEN bx.comparison > by.comparison
       ELSE HashRank(x) > HashRank(y)

best_leaf(branch) == CHOOSE x \in leaves(branch) : \A y \in leaves(branch) \ {x} : better(x, y)

update_best_tip(t) == [t EXCEPT !.best_tip = best_leaf(t.root_branch)]

\* walk back n steps from sh inside the root branch, stopping at its root
RECURSIVE walk_back(_, _, _)
walk_back(t, sh, n) ==
    IF n = 0 \/ sh = t.root_branch.root THEN sh ELSE walk_back(t, parent(sh), n - 1)

is_canonical_updatable(t) ==
    Length(t.best_tip) - Length(t.canonical_tip) >= canonical_update_threshold

\* variant: the canonical tip is taken one block closer to the best tip
update_canonical_shallow(t) ==
    IF is_canonical_updatable(t)
    THEN LET new_tip == walk_back(t, t.best_tip, canonical_threshold - 1) IN
         IF Length(new_tip) > Length(t.canonical_tip)
         THEN [t EXCEPT !.canonical_tip = new_tip] ELSE t
    ELSE t

update_canonical(t) ==
    IF is_canonical_updatable(t)
    THEN LET new_tip == walk_back(t, t.best_tip, canonical_threshold) IN
         IF Length(new_tip) > Length(t.canonical_tip)
         THEN [t EXCEPT !.canonical_tip = new_tip] ELSE t
    ELSE t

\* variant: only the new canonical tip is promoted
new_canonical_tip_only(old, new) ==
    IF new = old \/ Length(new) <= Length(old) THEN <<>> ELSE <<new>>

\* blocks promoted when the canonical tip moves from old to new, oldest first
RECURSIVE new_canonical_blocks(_, _)
new_canonical_blocks(old, new) ==
    IF new = old \/ Length(new) <= Length(old) THEN <<>>
    ELSE Append(new_canonical_blocks(old, parent(new)), new)

RECURSIVE is_descendant(_, _)
is_descendant(sh, anc) ==
    IF sh = anc THEN TRUE
    ELSE IF sh \notin StateHashes \/ Length(sh) <= Length(anc) THEN FALSE
    ELSE is_descendant(parent(sh), anc)

Restrict(m, ks) == [k \in (DOMAIN m) \cap ks |-> m[k]]

RECURSIVE retain_branches(_, _)
retain_branches(bs, floor) ==
    IF bs = <<>> THEN <<>>
    ELSE (IF \E sh \in DOMAIN Head(bs).nodes : Length(sh) >= floor THEN <<Head(bs)>> ELSE <<>>)
         \o retain_branches(Tail(bs), floor)

prune(t) ==
    IF Length(t.canonical_tip) - Length(t.root_branch.root) > prune_interval
    THEN LET new_root == t.canonical_tip
             kept == {sh \in DOMAIN t.root_branch.nodes : is_descendant(sh, new_root)}
             base == t.root_branch.nodes[new_root]
             floor == Length(t.canonical_tip) - prune_interval
         IN [t EXCEPT
                !.root_branch = [root |-> new_root,
                                 nodes |-> [sh \in kept |-> t.root_branch.nodes[sh] - base]],
                !.diffs_map = Restrict(@, kept),
                !.dangling_branches =
                    retain_branches(@, floor)]
    ELSE t

InTree(t, sh) ==
    \/ InBranch(t.root_branch, sh)
    \/ \E i \in 1..Len(t.dangling_branches) : InBranch(t.dangling_branches[i], sh)

\* add a block to the witness tree: extension, merge, best tip, canonicity, pruning
add_block_to_witness_tree(t, block) ==
    LET sh == block.state_hash
        prev == block.previous_state_hash
        ds == t.dangling_branches
        t1 == IF InBranch(t.root_branch, prev)
              THEN [t EXCEPT !.root_branch = extend(@, block),
                             !.diffs_map = Put(@, sh, block.balance_updates)]
              ELSE IF \E i \in 1..Len(ds) : InBranch(ds[i], prev)
              THEN LET i == CHOOSE x \in 1..Len(ds) : InBranch(ds[x], prev) IN
                   [t EXCEPT !.dangling_branches[i] = extend(@, block)]
              ELSE [t EXCEPT !.dangling_branches = Append(@, Branch(block))]
    IN IF InTree(t, sh) THEN t
       ELSE prune(update_canonical(update_best_tip(merge_dangling(t1))))

NewTree ==
    [root_branch |-> Branch(GenesisBlock), dangling_branches |-> <<>>,
     best_tip |-> MAINNET_GENESIS_HASH, canonical_tip |-> MAINNET_GENESIS_HASH,
     diffs_map |-> EmptyMap]

\* variant: the event log is not replayed
replay_events_skipped(t, d, log) == t

\* rebuild the witness tree from the event log: every NewBlock event re-adds its block
RECURSIVE replay_events(_, _, _)
replay_events(t, d, log) ==
    IF log = <<>> THEN t
    ELSE LET e == Head(log)
             t1 == IF e.tag = "NewBlock" /\ block_present(d, e.state_hash)
                   THEN add_block_to_witness_tree(t, d["blocks"][e.state_hash])
                   ELSE t
         IN replay_events(t1, d, Tail(log))

-----------------------------------------------------------------------------
(* Indexer state: the block pipeline *)

\* the best tip of the store follows the best tip of the witness tree
update_best_block(s, old_tip, new_tip) ==
    IF new_tip # old_tip THEN set_best_block(s, new_tip) ELSE s

\* block_pipeline: store the block; a block the store took is added to the tree, the
\* best tip moves and the new canonical blocks are promoted
block_pipeline(s, t, block) ==
    LET t1 == add_block_to_witness_tree(t, block)
        s1 == add_block(s, block)
        s2 == update_best_block(s1, t.best_tip, t1.best_tip)
    IN IF Len(s1.ws) = Len(s.ws) THEN [run |-> s, tree |-> t]
       ELSE [run |-> add_canonical_blocks(
                         s2, new_canonical_blocks(t.canonical_tip, t1.canonical_tip)),
             tree |-> t1]

-----------------------------------------------------------------------------
(* State after construction: genesis ledger, genesis block, genesis best tip *)

RECURSIVE genesis_balance_writes(_, _)
genesis_balance_writes(s, pks) ==
    IF pks = <<>> THEN s
    ELSE genesis_balance_writes(
             update_account_balance(s, Head(pks), Some(GenesisLedgerBalances[Head(pks)])),
             Tail(pks))

Genesis ==
    LET s1 == genesis_balance_writes(Begin(EmptyStore), KeysInOrder(DOMAIN GenesisLedgerBalances))
        s2 == update_num_accounts(s1, Cardinality(DOMAIN GenesisLedgerBalances))
        s3 == add_block(s2, GenesisBlock)
        s4 == set_best_block(s3, MAINNET_GENESIS_HASH)
    IN add_canonical_block(s4, 1, MAINNET_GENESIS_HASH)

Idle == [pc |-> "idle"]

Init ==
    /\ db = Genesis.d
    /\ tree = NewTree
    /\ status = "running"
    /\ lastOp = [op |-> "new"]
    /\ appended = EventsOf(Genesis.ws)
    /\ pending = <<>>
    /\ failures = 0
    /\ tipChanges = 0
    /\ lg = Idle

-----------------------------------------------------------------------------
(* The indexer: blocks arrive in any order and pass through the pipeline *)

Ingest(block) ==
    /\ status = "running"
    /\ \E r \in {block_pipeline(Begin(db), tree, block)} :
       /\ db' = r.run.d
       /\ tree' = r.tree
       /\ appended' = appended \o EventsOf(r.run.ws)
       /\ status' = IF r.run.ok THEN "running" ELSE "aborted"
       /\ lastOp' = [op |-> "ingest", state_hash |-> block.state_hash,
                     duplicate |-> block_present(db, block.state_hash)]
    /\ UNCHANGED <<pending, failures, tipChanges, lg>>

Next == \E block \in Blocks : Ingest(block)

Spec == Init /\ [][Next]_vars

-----------------------------------------------------------------------------
(* Properties of the pipeline *)

Stored(d) == {sh \in StateHashes : block_present(d, sh)}

\* C3: ingesting a block that is already present leaves the store, the event log and
\* the witness tree exactly as they were
C3_IngestIdempotent ==
    [][(lastOp'.op = "ingest" /\ lastOp'.duplicate)
        => (db' = db /\ tree' = tree /\ appended' = appended)]_vars

C3_Witness ==
    /\ lastOp.op = "ingest" /\ lastOp.duplicate
    /\ lastOp.state_hash # MAINNET_GENESIS_HASH
    /\ Cardinality(Stored(db)) >= 3

RECURSIVE ancestor(_, _)
ancestor(sh, n) ==
    IF n = 0 \/ sh \notin StateHashes THEN sh ELSE ancestor(parent(sh), n - 1)

C9_CanonicalAfterBlockAndTip ==
    LET log == EventLog(db) IN
    \A i \in 1..Len(log) :
        log[i].tag = "NewCanonicalBlock" =>
            /\ \E j \in 1..(i - 1) :
                  log[j].tag = "NewBlock" /\ log[j].state_hash = log[i].state_hash
            /\ \E k \in 1..(i - 1) :
                  log[k].tag = "NewBestTip" /\ is_descendant(log[k].state_hash, log[i].state_hash)

C9_Witness ==
    \E k \in DOMAIN db["events"] :
        /\ db["events"][k].tag = "NewCanonicalBlock"
        /\ db["events"][k].state_hash = "3NA2"

\* C10: the events in the log carry the sequence numbers 0, 1, 2, ... in append order,
\* with no gap and no number used twice
C10_DenseSequenceNumbers ==
    /\ DOMAIN db["events"] = {to_be_bytes(i - 1) : i \in 1..Len(appended)}
    /\ \A i \in 1..Len(appended) : db["events"][to_be_bytes(i - 1)] = appended[i]
    /\ get_next_seq_num(db) = Len(appended)

C10_Witness ==
    /\ Len(appended) >= 8
    /\ \E i \in 1..Len(appended) : appended[i].tag = "NewCanonicalBlock" /\ i > 3
    /\ \E i \in 1..Len(appended) : appended[i].tag = "NewBestTip" /\ i > 3

\* the blocks of the store labelled Canonical at a height
canonical_blocks_at_height(d, h) ==
    {sh \in Stored(d) : Length(sh) = h /\ Get(d["canonicity"], sh) = Some("Canonical")}

max_canonical_height(d) ==
    CHOOSE h \in 1..Cardinality(StateHashes) :
        /\ Has(d["canonical_at_height"], to_be_bytes(h))
        /\ \A g \in (h + 1)..Cardinality(StateHashes) :
               ~Has(d["canonical_at_height"], to_be_bytes(g))

\* C13: every height up to the maximum canonical height has exactly one block labelled
\* Canonical, and that block is the one canonical_at_height records for the height
C13_OneCanonicalPerHeight ==
    \A h \in 1..max_canonical_height(db) :
        /\ Has(db["canonical_at_height"], to_be_bytes(h))
        /\ canonical_blocks_at_height(db, h) = {db["canonical_at_height"][to_be_bytes(h)]}

C13_Witness ==
    /\ lastOp.op = "ingest"
    /\ max_canonical_height(db) >= 3
    /\ \E sh \in Stored(db) :
          /\ Length(sh) <= max_canonical_height(db)
          /\ Get(db["canonicity"], sh) # Some("Canonical")

\* the chain from genesis up to sh, keyed as canonical_at_height keys it
canonical_chain(sh) ==
    [k \in {to_be_bytes(h) : h \in 1..Length(sh)} |->
        ancestor(sh, Length(sh) - from_be_bytes(k))]

-----------------------------------------------------------------------------
(* The account store driven directly: balance updates and removals in any order *)

BalanceValues == {0, 1, 255, 256, 300}

UpdateAccountBalance(pk, balance) ==
    /\ status = "running"
    /\ db' = update_account_balance(Begin(db), pk, balance).d
    /\ lastOp' = [op |-> "update_account_balance", pk |-> pk, balance |-> balance]
    /\ UNCHANGED <<tree, status, appended, pending, failures, tipChanges, lg>>

NextAccounts ==
    \E pk \in PublicKeys :
        \/ \E b \in BalanceValues : UpdateAccountBalance(pk, Some(b))
        \/ UpdateAccountBalance(pk, None)

SpecAccounts == Init /\ [][NextAccounts]_vars

\* byte order of the balance-sort keys: 8 balance bytes, then the public key
SortKeyLess(x, y) == LexLess(x[1], y[1]) \/ (x[1] = y[1] /\ PkRank(x[2]) < PkRank(y[2]))

\* account_balance_iterator from the start: the sort keys in ascending byte order
RECURSIVE SortSortKeys(_)
SortSortKeys(ks) ==
    IF ks = {} THEN <<>>
    ELSE LET k == CHOOSE x \in ks : \A y \in ks \ {x} : SortKeyLess(x, y)
         IN <<k>> \o SortSortKeys(ks \ {k})

account_balance_iterator(d) == SortSortKeys(DOMAIN d["account_balance_sort"])

balance_key_prefix(key) == from_be_bytes(key[1])

\* C2: the balance-sort index holds exactly one entry per public key with a balance row,
\* keyed by the stored balance, and iterating it in reverse yields non-increasing balances
C2_SortIndexMatchesBalances ==
    LET bal == db["account_balance"]
        it == Reverse(account_balance_iterator(db))
    IN /\ DOMAIN db["account_balance_sort"] = {u64_prefix_key(bal[pk], pk) : pk \in DOMAIN bal}
       /\ Len(it) = Cardinality(DOMAIN bal)
       /\ \A i \in 1..Len(it) : balance_key_prefix(it[i]) = bal[it[i][2]]
       /\ \A i \in 1..(Len(it) - 1) : balance_key_prefix(it[i]) >= balance_key_prefix(it[i + 1])

C2_Witness ==
    /\ lastOp.op = "update_account_balance"
    /\ ~lastOp.balance.some
    /\ ~Has(db["account_balance"], lastOp.pk)
    /\ Has(db["account_balance"], "B62c") /\ db["account_balance"]["B62c"] = 256
    /\ Has(db["account_balance"], "B62a") /\ db["account_balance"]["B62a"] = 1

-----------------------------------------------------------------------------
(* The store driven directly: re-orgs between any two stored blocks *)

\* the blocks from the genesis block (excluded) up to sh, oldest first
RECURSIVE chain(_)
chain(sh) == IF sh = MAINNET_GENESIS_HASH THEN <<>> ELSE Append(chain(parent(sh)), sh)

\* one balance update applied to a map of balances
apply_balance_update(bal, u) ==
    LET old == GetOr(bal, u.public_key, 0) IN
    CASE u.tag = "CreateAccount" -> Put(bal, u.public_key, old)
      [] u.tag = "RemoveAccount" -> Del(bal, u.public_key)
      [] u.update_type = "Credit" -> Put(bal, u.public_key, old + u.amount)
      [] OTHER -> Put(bal, u.public_key, saturating_sub(old, u.amount))

RECURSIVE apply_balance_updates(_, _)
apply_balance_updates(bal, ups) ==
    IF ups = <<>> THEN bal
    ELSE apply_balance_updates(apply_balance_update(bal, Head(ups)), Tail(ups))

\* the balances of the chain that ends at sh: the genesis ledger, then every block in order
RECURSIVE chain_balances(_)
chain_balances(sh) ==
    IF sh = MAINNET_GENESIS_HASH
    THEN [pk \in DOMAIN GenesisLedgerBalances |-> GenesisLedgerBalances[pk]]
    ELSE apply_balance_updates(chain_balances(parent(sh)), BlockOf(sh).balance_updates)

ParentClosed(S) == \A sh \in S : sh = MAINNET_GENESIS_HASH \/ parent(sh) \in S

\* the blocks of S by height, then by state hash
InArrivalOrder(S) ==
    LET before(x, y) == Length(x) < Length(y) \/ (Length(x) = Length(y) /\ HashRank(x) < HashRank(y))
    IN [i \in 1..Cardinality(S) |->
           CHOOSE sh \in S : Cardinality({x \in S : before(x, sh)}) = i - 1]

RECURSIVE add_blocks(_, _)
add_blocks(d, shs) ==
    IF shs = <<>> THEN d
    ELSE LET d1 == add_block(Begin(d), BlockOf(Head(shs))).d IN
         IF block_present(d1, Head(shs)) THEN add_blocks(d1, Tail(shs)) ELSE d1

RECURSIVE set_best_blocks(_, _)
set_best_blocks(d, shs) ==
    IF shs = <<>> THEN d
    ELSE LET d1 == set_best_block(Begin(d), Head(shs)).d IN
         IF get_best_block_hash(d1) = Some(Head(shs)) THEN set_best_blocks(d1, Tail(shs)) ELSE d1

\* a store that holds the blocks of S and whose best tip moved block by block up to tip
StoreAt(S, tip) ==
    set_best_blocks(add_blocks(Genesis.d,
                               InArrivalOrder(S \ {MAINNET_GENESIS_HASH})),
                    chain(tip))

InitReorg ==
    /\ \E S \in SUBSET StateHashes :
          /\ MAINNET_GENESIS_HASH \in S /\ ParentClosed(S)
          /\ \E tip \in S : db = StoreAt(S, tip)
    /\ tree = NewTree
    /\ status = "running"
    /\ lastOp = [op |-> "new"]
    /\ appended = EventLog(db)
    /\ pending = <<>>
    /\ failures = 0
    /\ tipChanges = 0
    /\ lg = Idle

SetBestBlock(state_hash) ==
    /\ status = "running"
    /\ tipChanges < MaxBestTipChanges
    /\ block_present(db, state_hash)
    /\ \E r \in {set_best_block(Begin(db), state_hash)} :
       /\ db' = r.d
       /\ appended' = appended \o EventsOf(r.ws)
       /\ status' = IF r.ok THEN "running" ELSE "aborted"
       /\ lastOp' = [op |-> "set_best_block", old |-> get_best_block_hash(db).v,
                     new |-> state_hash, ok |-> r.ok,
                     from_chain |-> db["account_balance"] = chain_balances(get_best_block_hash(db).v)]
    /\ tipChanges' = tipChanges + 1
    /\ UNCHANGED <<tree, pending, failures, lg>>

NextReorg == \E state_hash \in StateHashes : SetBestBlock(state_hash)

SpecReorg == InitReorg /\ [][NextReorg]_vars

\* C1: for stored blocks T1 and T2 with a common ancestor, moving the best tip from T1 to
\* T2 turns the balances of the chain ending at T1 into those of the chain ending at T2
C1_ReorgBalances ==
    (lastOp.op = "set_best_block" /\ lastOp.from_chain)
        => (lastOp.ok /\ db["account_balance"] = chain_balances(lastOp.new))

C1_Downward ==
    /\ lastOp.op = "set_best_block" /\ lastOp.from_chain
    /\ Length(lastOp.old) > Length(lastOp.new)

\* the highest block on both the chain of a and the chain of b
common_ancestor(a, b) ==
    CHOOSE c \in StateHashes :
        /\ is_descendant(a, c) /\ is_descendant(b, c)
        /\ \A x \in StateHashes :
               (is_descendant(a, x) /\ is_descendant(b, x)) => Length(x) <= Length(c)

\* the blocks from tip down to, but not including, anc: tip first
RECURSIVE path_down(_, _)
path_down(tip, anc) ==
    IF tip = anc THEN <<>> ELSE <<tip>> \o path_down(parent(tip), anc)

\* the recorded update lists of the blocks, one after the other
RECURSIVE block_balance_updates(_, _)
block_balance_updates(d, shs) ==
    IF shs = <<>> THEN <<>>
    ELSE get_block_balance_updates(d, Head(shs)).v \o block_balance_updates(d, Tail(shs))

occurrences(seq, x) == Cardinality({i \in 1..Len(seq) : seq[i] = x})

same_updates(s1, s2) ==
    /\ Len(s1) = Len(s2)
    /\ \A i \in 1..Len(s1) : occurrences(s1, s1[i]) = occurrences(s2, s1[i])

\* the resolver's answer for the last best-tip change; the resolver reads the height,
\* parent and balance-update columns of the blocks, which set_best_block does not write
resolved == reorg_account_balance_updates(db, lastOp.old, lastOp.new)

reorged == lastOp.op = "set_best_block" /\ lastOp.old # lastOp.new

\* C16: for old tip a and new tip b, at any heights, the resolver returns lists, its
\* unapply list holds the balance updates of exactly the blocks from a down to, but not
\* including, the common ancestor, and its apply list those of the blocks from b
C16_ResolverLists ==
    reorged =>
        /\ resolved.ok
        /\ LET anc == common_ancestor(lastOp.old, lastOp.new) IN
           /\ same_updates(resolved.v.unapply,
                           block_balance_updates(db, path_down(lastOp.old, anc)))
           /\ same_updates(resolved.v.apply,
                           block_balance_updates(db, path_down(lastOp.new, anc)))

\* C17: the apply list is the concatenation, from the lowest new-side block up to the
\* new tip, of each block's recorded update list in the order it was recorded
C17_ApplyForwardOrder ==
    (reorged /\ resolved.ok) =>
        resolved.v.apply =
            block_balance_updates(
                db, Reverse(path_down(lastOp.new,
                                      common_ancestor(lastOp.old, lastOp.new))))

\* C18: for any two stored tips the resolver returns a result rather than failing, also
\* when one of the tips is the genesis block
C18_ResolverReturns ==
    [][\A state_hash \in StateHashes :
          SetBestBlock(state_hash) => status' = "running"]_vars

-----------------------------------------------------------------------------
(* The best-tip change seen by a concurrent reader: one store write at a time *)

BeginSetBestBlock(state_hash) ==
    /\ status = "running"
    /\ pending = <<>>
    /\ tipChanges < MaxBestTipChanges
    /\ block_present(db, state_hash)
    /\ \E r \in {set_best_block(Begin(db), state_hash)} :
       /\ pending' = r.ws
       /\ status' = IF r.ok THEN "running" ELSE "aborted"
       /\ lastOp' = [op |-> "set_best_block", old |-> get_best_block_hash(db).v,
                     new |-> state_hash, ok |-> r.ok,
                     from_chain |-> db["account_balance"] = chain_balances(get_best_block_hash(db).v)]
    /\ tipChanges' = tipChanges + 1
    /\ UNCHANGED <<db, tree, appended, failures, lg>>

\* the next put_cf or delete_cf of the running set_best_block reaches the store
WriteStep ==
    /\ pending # <<>>
    /\ db' = ApplyWrite(db, Head(pending))
    /\ appended' = appended \o EventsOf(<<Head(pending)>>)
    /\ pending' = Tail(pending)
    /\ UNCHANGED <<tree, status, lastOp, failures, tipChanges, lg>>

NextConc ==
    \/ \E state_hash \in StateHashes : BeginSetBestBlock(state_hash)
    \/ WriteStep

SpecConc == InitReorg /\ [][NextConc]_vars

\* what a reader that opens the store now sees for the tip T
ReaderSeesTip(T) ==
    /\ get_best_block_hash(db) = Some(T)
    /\ db["account_balance"] = chain_balances(T)
    /\ DOMAIN db["account_balance_sort"] =
           {u64_prefix_key(chain_balances(T)[pk], pk) : pk \in DOMAIN chain_balances(T)}

\* C5: a reader never observes a best-tip change half done: the best-tip pointer, the
\* balance rows and the balance-sort index all correspond to one and the same tip
C5_ReaderSeesOneTip ==
    status = "running" => \E T \in StateHashes : ReaderSeesTip(T)

-----------------------------------------------------------------------------
(* The block store driven directly, with store writes that can fail *)

\* add_block when the write after the first k fails: every write is its own put_cf
add_block_failing(d, block, k) == SubSeq(add_block(Begin(d), block).ws, 1, k)

AddBlock(block) ==
    /\ status = "running"
    /\ block_present(db, block.state_hash) \/ Cardinality(Stored(db)) < MaxBlocks
    /\ \E r \in {add_block(Begin(db), block)} :
       /\ db' = r.d
       /\ appended' = appended \o EventsOf(r.ws)
    /\ lastOp' = [op |-> "add_block", state_hash |-> block.state_hash, failed |-> FALSE,
                  duplicate |-> block_present(db, block.state_hash)]
    /\ UNCHANGED <<tree, status, pending, failures, tipChanges, lg>>

AddBlockFail(block, k) ==
    /\ status = "running"
    /\ failures < MaxFailures
    /\ ~block_present(db, block.state_hash) /\ Cardinality(Stored(db)) < MaxBlocks
    /\ k < Len(add_block(Begin(db), block).ws)
    /\ LET ws == add_block_failing(db, block, k) IN
       /\ db' = ApplyWrites(db, ws)
       /\ appended' = appended \o EventsOf(ws)
    /\ lastOp' = [op |-> "add_block", state_hash |-> block.state_hash, failed |-> TRUE,
                  written |-> k]
    /\ failures' = failures + 1
    /\ UNCHANGED <<tree, status, pending, tipChanges, lg>>

NextAdd ==
    \E block \in Blocks :
        \/ AddBlock(block)
        \/ \E k \in 0..(Len(add_block_writes(Begin(db), block).ws) - 1) : AddBlockFail(block, k)

SpecAdd == Init /\ [][NextAdd]_vars

\* C4: when a store write fails during add_block, the store is afterwards identical to
\* the store before the call
C4_FailedAddLeavesStore ==
    [][(lastOp'.op = "add_block" /\ lastOp'.failed) => db' = db]_vars

-----------------------------------------------------------------------------
(* The in-memory ledger: applying and unapplying a block's diff *)

\* amounts of the ledger engine are counted in units of 10^8 nanomina
MAINNET_ACCOUNT_CREATION_FEE == 10
MAINNET_COINBASE_REWARD == 7200

Account(balance, nonce, delegate) == [balance |-> balance, nonce |-> nonce, delegate |-> delegate]
empty(pk) == Account(0, None, pk)

DebitNonce(pk, amount, nonce) ==
    [tag |-> "Payment", update_type |-> "Debit", nonce |-> nonce, public_key |-> pk,
     amount |-> amount]
CreditTo(pk, amount) ==
    [tag |-> "Payment", update_type |-> "Credit", public_key |-> pk, amount |-> amount]
Delegation(delegator, delegate, nonce) ==
    [tag |-> "Delegation", public_key |-> delegator, delegate |-> delegate, nonce |-> nonce]
Coinbase(pk, amount) == [tag |-> "Coinbase", public_key |-> pk, amount |-> amount]
FeeTransfer(payment) == [payment EXCEPT !.tag = "FeeTransfer"]
FeeTransferViaCoinbase(payment) == [payment EXCEPT !.tag = "FeeTransferViaCoinbase"]
FailedTransactionNonce(pk, nonce) ==
    [tag |-> "FailedTransactionNonce", public_key |-> pk, nonce |-> nonce]
CreateAccountDiff(pk) == [tag |-> "CreateAccount", public_key |-> pk]

LedgerDiff(account_diffs, new_pk_balances) ==
    [account_diffs |-> account_diffs, new_pk_balances |-> new_pk_balances]

from_payment(pre, payment_diff) ==
    IF payment_diff.update_type = "Credit"
    THEN [pre EXCEPT !.balance = @ + payment_diff.amount]
    ELSE [pre EXCEPT !.balance = saturating_sub(@, payment_diff.amount),
                     !.nonce = IF payment_diff.nonce.some THEN payment_diff.nonce ELSE @]

from_payment_unapply(pre, payment_diff) ==
    IF payment_diff.update_type = "Credit"
    THEN [pre EXCEPT !.balance = saturating_sub(@, payment_diff.amount)]
    ELSE [pre EXCEPT !.balance = @ + payment_diff.amount]

from_delegation(pre, delegate, nonce) == [pre EXCEPT !.delegate = delegate, !.nonce = Some(nonce)]
from_delegation_unapply(pre, delegate, nonce) == [pre EXCEPT !.delegate = delegate, !.nonce = nonce]
from_coinbase(pre, amount) == [pre EXCEPT !.balance = @ + amount]
from_failed_transaction(pre, nonce) == [pre EXCEPT !.nonce = Some(nonce)]

\* the accounts after the pre-scan: an empty account for every key the diff names
RECURSIVE insert_empty(_, _)
insert_empty(accounts, diffs) ==
    IF diffs = <<>> THEN accounts
    ELSE LET pk == Head(diffs).public_key IN
         insert_empty(IF Has(accounts, pk) THEN accounts ELSE Put(accounts, pk, empty(pk)),
                      Tail(diffs))

Err(msg) == [ok |-> FALSE, err |-> msg]

not_found(diff) ==
    CASE diff.tag = "Coinbase" -> "return"
      [] diff.tag = "Delegation" -> "Invalid delegation"
      [] OTHER -> "Account not found"

RECURSIVE apply_account_diffs(_, _)
apply_account_diffs(accounts, diffs) ==
    IF diffs = <<>> THEN Ok(accounts)
    ELSE LET diff == Head(diffs)
             pk == diff.public_key
         IN IF ~Has(accounts, pk)
            THEN (IF not_found(diff) = "return" THEN Ok(accounts) ELSE Err(not_found(diff)))
            ELSE LET account_before == accounts[pk]
                     account ==
                         CASE diff.tag \in {"Payment", "FeeTransfer", "FeeTransferViaCoinbase"} ->
                                  from_payment(account_before, diff)
                           [] diff.tag = "CreateAccount" -> account_before
                           [] diff.tag = "Delegation" ->
                                  from_delegation(account_before, diff.delegate, diff.nonce)
                           [] diff.tag = "Coinbase" -> from_coinbase(account_before, diff.amount)
                           [] diff.tag = "FailedTransactionNonce" ->
                                  from_failed_transaction(account_before, diff.nonce)
                 IN apply_account_diffs(Put(accounts, pk, account), Tail(diffs))

\* account creation fees, after all account diffs
pay_creation_fees(accounts, pks) ==
    IF \E pk \in pks : ~Has(accounts, pk) THEN Panic("unreachable")
    ELSE Ok([pk \in DOMAIN accounts |->
                IF pk \in pks
                THEN [accounts[pk] EXCEPT
                         !.balance = saturating_sub(@, MAINNET_ACCOUNT_CREATION_FEE)]
                ELSE accounts[pk]])

_apply_diff(accounts, diff) ==
    LET r == apply_account_diffs(insert_empty(accounts, diff.account_diffs), diff.account_diffs)
    IN IF ~r.ok THEN r ELSE pay_creation_fees(r.v, diff.new_pk_balances)

RECURSIVE unapply_account_diffs(_, _)
unapply_account_diffs(accounts, diffs) ==
    IF diffs = <<>> THEN Ok(accounts)
    ELSE LET diff == Head(diffs)
             pk == diff.public_key
         IN IF ~Has(accounts, pk)
            THEN (IF not_found(diff) = "return" THEN Ok(accounts) ELSE Err(not_found(diff)))
            ELSE IF diff.tag = "CreateAccount"
            THEN (IF Has(Del(accounts, pk), pk)
                  THEN unapply_account_diffs(Del(accounts, pk), Tail(diffs))
                  ELSE Panic("assertion failed: self.accounts.get(pk).is_some()"))
            ELSE LET account_before == accounts[pk]
                     account ==
                         CASE diff.tag \in {"Payment", "FeeTransfer", "FeeTransferViaCoinbase"} ->
                                  from_payment_unapply(account_before, diff)
                           [] diff.tag = "Delegation" ->
                                  from_delegation_unapply(account_before, diff.delegate,
                                                          Some(diff.nonce))
                           [] diff.tag = "Coinbase" -> from_coinbase(account_before, diff.amount)
                           [] diff.tag = "FailedTransactionNonce" ->
                                  from_failed_transaction(account_before, diff.nonce)
                 IN unapply_account_diffs(Put(accounts, pk, account), Tail(diffs))

_unapply_diff(accounts, diff) ==
    unapply_account_diffs(insert_empty(accounts, diff.account_diffs), diff.account_diffs)

\* ledgers and block diffs the ledger engine is run on
LedgerInputs ==
    { [pk \in S |-> Account(b, n, pk)] :
        S \in {{}, {"B62a"}, {"B62a", "B62b"}}, b \in {0, 5, 10000}, n \in {None, Some(3)} }

DiffInputs == {
    LedgerDiff(<<Coinbase("B62a", MAINNET_COINBASE_REWARD)>>, {}),
    LedgerDiff(<<Coinbase("B62c", MAINNET_COINBASE_REWARD)>>, {"B62c"}),
    LedgerDiff(<<CreditTo("B62b", 5), DebitNonce("B62a", 5, Some(4)),
                 Coinbase("B62a", MAINNET_COINBASE_REWARD),
                 FeeTransfer(CreditTo("B62a", 1)), FeeTransfer(DebitNonce("B62a", 1, None))>>, {}),
    LedgerDiff(<<CreditTo("B62b", 5), DebitNonce("B62a", 5, Some(4))>>, {}),
    LedgerDiff(<<CreditTo("B62c", 15), DebitNonce("B62a", 15, Some(4))>>, {"B62c"}),
    LedgerDiff(<<Delegation("B62a", "B62b", 4), Coinbase("B62b", MAINNET_COINBASE_REWARD)>>, {}),
    LedgerDiff(<<Delegation("B62a", "B62b", 4)>>, {}),
    LedgerDiff(<<FailedTransactionNonce("B62a", 4)>>, {}),
    LedgerDiff(<<Coinbase("B62b", MAINNET_COINBASE_REWARD),
                 FeeTransferViaCoinbase(CreditTo("B62a", 1)),
                 FeeTransferViaCoinbase(DebitNonce("B62b", 1, None))>>, {}),
    LedgerDiff(<<CreateAccountDiff("B62c"), CreditTo("B62c", 5), DebitNonce("B62a", 5, Some(4))>>, {}),
    LedgerDiff(<<>>, {})
}

InitLedger ==
    /\ db = Genesis.d
    /\ tree = NewTree
    /\ status = "running"
    /\ lastOp = [op |-> "new"]
    /\ appended = EventsOf(Genesis.ws)
    /\ pending = <<>>
    /\ failures = 0
    /\ tipChanges = 0
    /\ \E accounts \in LedgerInputs : \E diff \in DiffInputs :
          lg = [pc |-> "new", before |-> accounts, diff |-> diff, accounts |-> Ok(accounts)]

ApplyDiff ==
    /\ lg.pc = "new"
    /\ lg' = [lg EXCEPT !.pc = "applied", !.accounts = _apply_diff(lg.before, lg.diff)]
    /\ UNCHANGED <<db, tree, status, lastOp, appended, pending, failures, tipChanges>>

UnapplyDiff ==
    /\ lg.pc = "applied" /\ lg.accounts.ok
    /\ lg' = [lg EXCEPT !.pc = "unapplied", !.accounts = _unapply_diff(lg.accounts.v, lg.diff)]
    /\ UNCHANGED <<db, tree, status, lastOp, appended, pending, failures, tipChanges>>

NextLedger == ApplyDiff \/ UnapplyDiff

SpecLedger == InitLedger /\ [][NextLedger]_vars

\* Ledger equality: the same keys and, per key, the same account
LedgerEq(x, y) ==
    /\ \A pk \in DOMAIN x : Get(x, pk) = Get(y, pk)
    /\ \A pk \in DOMAIN y : Get(x, pk) = Get(y, pk)

\* C7: unapplying a diff from the result of applying it gives a ledger equal to the
\* original: the same accounts, each with the same balance, nonce and delegate
C7_ApplyUnapplyRoundTrip ==
    lg.pc = "unapplied" => (lg.accounts.ok /\ LedgerEq(lg.accounts.v, lg.before))

\* C21: unapplying a Delegation diff sets the delegate of the delegator back to the
\* delegate the account had immediately before the diff was applied
C21_UnapplyRestoresDelegate ==
    (lg.pc = "unapplied" /\ lg.accounts.ok) =>
        \A i \in DOMAIN lg.diff.account_diffs :
            LET diff == lg.diff.account_diffs[i] IN
            (diff.tag = "Delegation" /\ Has(lg.before, diff.public_key))
                => lg.accounts.v[diff.public_key].delegate
                       = lg.before[diff.public_key].delegate

\* C22: applying a diff that holds a payment, fee transfer or debit for a public key the
\* ledger does not have returns the account-not-found error (the ledger the caller keeps
\* is then the one from before the apply)
C22_MissingAccountIsError ==
    (lg.pc = "applied"
     /\ \E i \in DOMAIN lg.diff.account_diffs :
            /\ lg.diff.account_diffs[i].tag \in {"Payment", "FeeTransfer", "FeeTransferViaCoinbase"}
            /\ ~Has(lg.before, lg.diff.account_diffs[i].public_key))
        => (~lg.accounts.ok /\ lg.accounts.err = "Account not found")

-----------------------------------------------------------------------------
(* The diff engine: account diffs derived from a precomputed block *)

MaxCommands == 2

\* a user command of a staged ledger diff, with its status
UserCommand(kind, source, receiver, amount, fee, nonce, applied) ==
    [kind |-> kind, source |-> source, receiver |-> receiver, amount |-> amount,
     fee |-> fee, fee_payer |-> source, nonce |-> nonce, applied |-> applied]

SnarkWorkSummary(prover, fee) == [prover |-> prover, fee |-> fee]

CoinbaseFeeTransfer(receiver_pk, fee) == [receiver_pk |-> receiver_pk, fee |-> fee]
Zero == [tag |-> "Zero"]
One(fee_transfer) == [tag |-> "One", fee_transfers |-> <<fee_transfer>>]
Two(fee_transfer0, fee_transfer1) ==
    [tag |-> "Two", fee_transfers |-> <<fee_transfer0, fee_transfer1>>]

\* the part of a precomputed block the diff engine reads
StagedLedgerDiff(receiver, supercharge, pre, post, snarks, kind, created) ==
    [coinbase_receiver |-> receiver, supercharge_coinbase |-> supercharge,
     commands_pre_diff |-> pre, commands_post_diff |-> post, snarks |-> snarks,
     kind |-> kind, accounts_created |-> created]

commands(block) == block.commands_pre_diff \o block.commands_post_diff

\* the orders in which an iterator can yield the keys of a HashMap
IterationOrders(keys) ==
    {o \in [1..Cardinality(keys) -> keys] : \A k \in keys : \E i \in DOMAIN o : o[i] = k}

\* fee_map: fees aggregated per fee payer
RECURSIVE fee_map(_, _)
fee_map(user_cmds, acc) ==
    IF user_cmds = <<>> THEN acc
    ELSE LET fee_payer == Head(user_cmds).fee_payer
             fee == Head(user_cmds).fee
         IN fee_map(Tail(user_cmds), Put(acc, fee_payer, GetOr(acc, fee_payer, 0) + fee))

\* variant: the fee payer is not debited
RECURSIVE transaction_fees_credit_only(_, _, _)
transaction_fees_credit_only(coinbase_receiver, user_cmds, order) ==
    IF order = <<>> THEN <<>>
    ELSE LET pk == Head(order)
             fee == fee_map(user_cmds, EmptyMap)[pk]
         IN (IF fee > 0 THEN <<FeeTransfer(CreditTo(coinbase_receiver, fee))>> ELSE <<>>)
            \o transaction_fees_credit_only(coinbase_receiver, user_cmds, Tail(order))

\* transaction_fees: order is the order in which fee_map.iter() yields the fee payers
RECURSIVE transaction_fees(_, _, _)
transaction_fees(coinbase_receiver, user_cmds, order) ==
    IF order = <<>> THEN <<>>
    ELSE LET pk == Head(order)
             fee == fee_map(user_cmds, EmptyMap)[pk]
         IN (IF fee > 0
             THEN << FeeTransfer(CreditTo(coinbase_receiver, fee)),
                     FeeTransfer(DebitNonce(pk, fee, None)) >>
             ELSE <<>>)
            \o transaction_fees(coinbase_receiver, user_cmds, Tail(order))

from_transaction_fees(block, pre_order, post_order) ==
    transaction_fees(block.coinbase_receiver, block.commands_pre_diff, pre_order)
    \o transaction_fees(block.coinbase_receiver, block.commands_post_diff, post_order)

\* SNARK work fees aggregated per prover
RECURSIVE snark_fee_map(_, _)
snark_fee_map(snarks, acc) ==
    IF snarks = <<>> THEN acc
    ELSE snark_fee_map(Tail(snarks),
                       Put(acc, Head(snarks).prover,
                           GetOr(acc, Head(snarks).prover, 0) + Head(snarks).fee))

\* from_snark_fees: order is the order in which fee_map.iter() yields the provers
RECURSIVE from_snark_fees(_, _)
from_snark_fees(block, order) ==
    IF order = <<>> THEN <<>>
    ELSE LET prover == Head(order)
             total_fee == snark_fee_map(block.snarks, EmptyMap)[prover]
         IN (IF total_fee > 0
             THEN << FeeTransfer(CreditTo(prover, total_fee)),
                     FeeTransfer(DebitNonce(block.coinbase_receiver, total_fee, None)) >>
             ELSE <<>>)
            \o from_snark_fees(block, Tail(order))

\* the iteration orders of the three fee maps of one derivation
FeeMapOrders(block) ==
    [pre : IterationOrders(DOMAIN fee_map(block.commands_pre_diff, EmptyMap)),
     post : IterationOrders(DOMAIN fee_map(block.commands_post_diff, EmptyMap)),
     snark : IterationOrders(DOMAIN snark_fee_map(block.snarks, EmptyMap))]

from_block_fees(block, orders) ==
    from_transaction_fees(block, orders.pre, orders.post)
    \o from_snark_fees(block, orders.snark)

is_applied(txn) == txn.applied

\* the total order over Command: payments by source, receiver, amount, nonce; then
\* delegations by delegator, delegate, nonce
command_key(cmd) ==
    << IF cmd.kind = "Payment" THEN 0 ELSE 1, PkRank(cmd.source), PkRank(cmd.receiver),
       IF cmd.kind = "Payment" THEN cmd.amount ELSE 0, cmd.nonce >>

command_less(a, b) == LexLess(command_key(a), command_key(b))

\* Vec::sort: stable, ascending
RECURSIVE sort_commands(_)
sort_commands(cmds) ==
    IF cmds = <<>> THEN <<>>
    ELSE LET rest == sort_commands(SubSeq(cmds, 1, Len(cmds) - 1))
             last == cmds[Len(cmds)]
             n == Cardinality({i \in 1..Len(rest) : ~command_less(last, rest[i])})
         IN SubSeq(rest, 1, n) \o <<last>> \o SubSeq(rest, n + 1, Len(rest))

from_command(command) ==
    IF command.kind = "Payment"
    THEN << CreditTo(command.receiver, command.amount),
            DebitNonce(command.source, command.amount, Some(command.nonce + 1)) >>
    ELSE << Delegation(command.source, command.receiver, command.nonce + 1) >>

RECURSIVE flat_map_from_command(_)
flat_map_from_command(cmds) ==
    IF cmds = <<>> THEN <<>> ELSE from_command(Head(cmds)) \o flat_map_from_command(Tail(cmds))

\* the applied commands, zero-amount payments dropped
RECURSIVE applied_commands(_)
applied_commands(cmds) ==
    IF cmds = <<>> THEN <<>>
    ELSE (IF is_applied(Head(cmds)) /\ (Head(cmds).kind = "Payment" => Head(cmds).amount > 0)
          THEN <<Head(cmds)>> ELSE <<>>)
         \o applied_commands(Tail(cmds))

RECURSIVE failed_nonce_diffs(_)
failed_nonce_diffs(cmds) ==
    IF cmds = <<>> THEN <<>>
    ELSE (IF ~is_applied(Head(cmds))
          THEN <<FailedTransactionNonce(Head(cmds).source, Head(cmds).nonce)>>
          ELSE <<>>)
         \o failed_nonce_diffs(Tail(cmds))

\* Coinbase::amount: supercharge doubles the reward
coinbase_amount(block) ==
    IF block.supercharge_coinbase THEN 2 * MAINNET_COINBASE_REWARD ELSE MAINNET_COINBASE_REWARD

\* Coinbase::fee_transfer: a credit/debit pair per attached fee transfer
RECURSIVE fee_transfer_pairs(_, _)
fee_transfer_pairs(fee_transfers, receiver) ==
    IF fee_transfers = <<>> THEN <<>>
    ELSE (IF Head(fee_transfers).some
          THEN << CreditTo(Head(fee_transfers).v.receiver_pk, Head(fee_transfers).v.fee),
                  DebitNonce(receiver, Head(fee_transfers).v.fee, None) >>
          ELSE <<>>)
         \o fee_transfer_pairs(Tail(fee_transfers), receiver)

fee_transfer(block) ==
    IF block.kind.tag = "Zero" THEN <<>>
    ELSE fee_transfer_pairs(block.kind.fee_transfers, block.coinbase_receiver)

is_coinbase_applied(block) == block.kind.tag # "Zero"

has_fee_transfer(block) ==
    /\ block.kind.tag # "Zero"
    /\ \E i \in DOMAIN block.kind.fee_transfers : block.kind.fee_transfers[i].some

\* variant: every adjacent pair that equals the coinbase's fee transfer is rewritten
replace_every_fee_transfer(fees, ft) ==
    Ok([n \in 1..Len(fees) |->
           IF n < Len(fees) /\ fees[n] = FeeTransfer(ft[1]) /\ fees[n + 1] = FeeTransfer(ft[2])
           THEN FeeTransferViaCoinbase(ft[1])
           ELSE IF n > 1 /\ fees[n - 1] = FeeTransfer(ft[1]) /\ fees[n] = FeeTransfer(ft[2])
           THEN FeeTransferViaCoinbase(ft[2])
           ELSE fees[n]])

\* replace fee_transfer with fee_transfer_via_coinbase, if any: the first position n
\* whose diff equals the coinbase's credit and whose successor equals its debit;
\* the read of position n + 1 past the end of the vector panics
replace_fee_transfer(fees, ft) ==
    LET matches(n) == fees[n] = FeeTransfer(ft[1]) /\ fees[n + 1] = FeeTransfer(ft[2])
        reads_past_end(n) == fees[n] = FeeTransfer(ft[1]) /\ n = Len(fees)
        found == {n \in 1..Len(fees) : reads_past_end(n) \/ matches(n)}
        idx == CHOOSE n \in found : \A m \in found : n <= m
    IN IF found = {} THEN Ok(fees)
       ELSE IF reads_past_end(idx) THEN Panic("index out of bounds")
       ELSE Ok([n \in 1..Len(fees) |->
                   IF n = idx THEN FeeTransferViaCoinbase(ft[1])
                   ELSE IF n = idx + 1 THEN FeeTransferViaCoinbase(ft[2])
                   ELSE fees[n]])

\* LedgerDiff::from_precomputed; orders are the iteration orders of the fee maps
from_precomputed(block, orders) ==
    LET account_diff_txns ==
            flat_map_from_command(sort_commands(applied_commands(commands(block))))
            \o failed_nonce_diffs(commands(block))
        fees == from_block_fees(block, orders)
        account_diff_fees ==
            IF has_fee_transfer(block) THEN replace_fee_transfer(fees, fee_transfer(block))
            ELSE Ok(fees)
        coinbase_diff ==
            IF is_coinbase_applied(block)
            THEN <<Coinbase(block.coinbase_receiver, coinbase_amount(block))>>
            ELSE <<>>
    IN IF ~account_diff_fees.ok THEN account_diff_fees
       ELSE Ok(LedgerDiff(account_diff_txns \o coinbase_diff \o account_diff_fees.v,
                          block.accounts_created))

\* user commands, SNARK works and coinbases of the blocks the diff engine is run on
CommandInputs == {
    UserCommand("Payment", "B62a", "B62b", 5, 1, 3, TRUE),
    UserCommand("Payment", "B62a", "B62b", 3, 2, 4, TRUE),
    UserCommand("Payment", "B62a", "B62c", 4, 1, 4, FALSE),
    UserCommand("Payment", "B62a", "B62c", 4, 1, 3, FALSE),
    UserCommand("Payment", "B62b", "B62a", 0, 1, 0, TRUE),
    UserCommand("Delegation", "B62b", "B62c", 0, 2, 1, TRUE) }

\* a sender's commands appear in a block in the order of their nonces
NonceOrdered(cmds) ==
    \A i, j \in DOMAIN cmds : (i < j /\ cmds[i].source = cmds[j].source)
                                  => cmds[i].nonce < cmds[j].nonce

CommandSeqs ==
    {cmds \in UNION {[1..n -> CommandInputs] : n \in 0..MaxCommands} : NonceOrdered(cmds)}

SnarkInputs == {
    <<>>,
    <<SnarkWorkSummary("B62a", 1)>>,
    <<SnarkWorkSummary("B62a", 1), SnarkWorkSummary("B62b", 2)>>,
    <<SnarkWorkSummary("B62b", 1), SnarkWorkSummary("B62b", 1)>>,
    <<SnarkWorkSummary("B62a", 0)>>,
    <<SnarkWorkSummary("B62c", 1)>> }

CoinbaseKindInputs == {
    Zero, One(None), One(Some(CoinbaseFeeTransfer("B62a", 1))),
    Two(None, Some(CoinbaseFeeTransfer("B62b", 2))),
    One(Some(CoinbaseFeeTransfer("B62c", 1))),
    Two(Some(CoinbaseFeeTransfer("B62a", 1)), Some(CoinbaseFeeTransfer("B62b", 2))) }

StagedLedgerDiffInputs ==
    { StagedLedgerDiff("B62c", supercharge, pre, post, snarks, kind, {}) :
        supercharge \in BOOLEAN, pre \in CommandSeqs,
        post \in {<<>>, <<UserCommand("Payment", "B62b", "B62c", 2, 2, 2, TRUE)>>,
                  <<UserCommand("Payment", "B62c", "B62a", 1, 1, 0, TRUE)>>},
        snarks \in SnarkInputs, kind \in CoinbaseKindInputs }

InitDiff ==
    /\ db = Genesis.d
    /\ tree = NewTree
    /\ status = "running"
    /\ lastOp = [op |-> "new"]
    /\ appended = EventsOf(Genesis.ws)
    /\ pending = <<>>
    /\ failures = 0
    /\ tipChanges = 0
    /\ \E block \in StagedLedgerDiffInputs : lg = [pc |-> "block", block |-> block]

\* LedgerDiff::from_precomputed on the block
DeriveDiff ==
    /\ lg.pc = "block"
    /\ \E orders \in FeeMapOrders(lg.block) :
          lg' = [pc |-> "derived", block |-> lg.block,
                 diff |-> from_precomputed(lg.block, orders)]
    /\ UNCHANGED <<db, tree, status, lastOp, appended, pending, failures, tipChanges>>

\* LedgerDiff::from_precomputed on the same block once more
DeriveDiffAgain ==
    /\ lg.pc = "derived"
    /\ \E orders \in FeeMapOrders(lg.block) :
          lg' = [pc |-> "derived_twice", block |-> lg.block, diff |-> lg.diff,
                 again |-> from_precomputed(lg.block, orders)]
    /\ UNCHANGED <<db, tree, status, lastOp, appended, pending, failures, tipChanges>>

\* the ledger of the parent block: it has no account for the keys the block creates, and
\* every sender's account holds the nonce of the first command the sender has in the block
first_nonce(cmds, pk) ==
    IF \E i \in DOMAIN cmds : cmds[i].source = pk
    THEN Some(cmds[CHOOSE i \in DOMAIN cmds :
                     /\ cmds[i].source = pk
                     /\ \A j \in 1..(i - 1) : cmds[j].source # pk].nonce)
    ELSE None

parent_ledger(block) ==
    [pk \in PublicKeys \ block.accounts_created |->
        Account(10000, first_nonce(commands(block), pk), pk)]

sets_nonce(diff) ==
    \/ diff.tag \in {"Delegation", "FailedTransactionNonce"}
    \/ /\ diff.tag \in {"Payment", "FeeTransfer", "FeeTransferViaCoinbase"}
       /\ diff.update_type = "Debit" /\ diff.nonce.some

\* the nonce an account holds before and after each account diff that sets it, in the
\* order _apply_diff applies the diffs
RECURSIVE nonce_updates(_, _)
nonce_updates(accounts, diffs) ==
    IF diffs = <<>> THEN <<>>
    ELSE (IF sets_nonce(Head(diffs))
          THEN <<[public_key |-> Head(diffs).public_key,
                  before |-> accounts[Head(diffs).public_key].nonce,
                  after |-> apply_account_diffs(accounts, <<Head(diffs)>>)
                                .v[Head(diffs).public_key].nonce]>>
          ELSE <<>>)
         \o nonce_updates(apply_account_diffs(accounts, <<Head(diffs)>>).v, Tail(diffs))

\* Ledger::apply_diff_from_precomputed: the diff of the block applied to the parent ledger
ApplyDiffFromPrecomputed ==
    /\ lg.pc = "derived" /\ lg.diff.ok
    /\ lg' = [pc |-> "block_applied", block |-> lg.block, diff |-> lg.diff,
              accounts |-> _apply_diff(parent_ledger(lg.block), lg.diff.v),
              nonces |-> nonce_updates(insert_empty(parent_ledger(lg.block),
                                                    lg.diff.v.account_diffs),
                                       lg.diff.v.account_diffs)]
    /\ UNCHANGED <<db, tree, status, lastOp, appended, pending, failures, tipChanges>>

NextDiff == DeriveDiff \/ DeriveDiffAgain \/ ApplyDiffFromPrecomputed

SpecDiff == InitDiff /\ [][NextDiff]_vars

\* sum of the signed amounts of the Payment, FeeTransfer and FeeTransferViaCoinbase diffs
RECURSIVE signed_sum(_)
signed_sum(diffs) ==
    IF diffs = <<>> THEN 0
    ELSE (IF Head(diffs).tag \in {"Payment", "FeeTransfer", "FeeTransferViaCoinbase"}
          THEN (IF Head(diffs).update_type = "Credit"
                THEN Head(diffs).amount ELSE -Head(diffs).amount)
          ELSE 0)
         + signed_sum(Tail(diffs))

HasTag(diffs, tag) == \E i \in DOMAIN diffs : diffs[i].tag = tag

\* C11: for every block, the Payment, FeeTransfer and FeeTransferViaCoinbase diffs
\* derived from it sum to zero, credits counted positive and debits negative
C11_DiffConservation ==
    lg.pc = "derived" => (lg.diff.ok /\ signed_sum(lg.diff.v.account_diffs) = 0)

C11_Witness ==
    /\ lg.pc = "derived" /\ lg.diff.ok
    /\ HasTag(lg.diff.v.account_diffs, "Payment")
    /\ HasTag(lg.diff.v.account_diffs, "FeeTransfer")
    /\ HasTag(lg.diff.v.account_diffs, "FeeTransferViaCoinbase")
    /\ HasTag(lg.diff.v.account_diffs, "Coinbase")

\* C12: deriving the diff of the same block twice gives the same list of account diffs
\* in the same order
C12_DiffDeterministic ==
    lg.pc = "derived_twice" => lg.again = lg.diff

-----------------------------------------------------------------------------
(* Start-up: the initialization modes New, Replay and Sync *)

MaxStoredAtRestart == 4

\* add_blocks: every block the parser yields goes through the pipeline
RECURSIVE state_add_blocks(_, _)
state_add_blocks(r, shs) ==
    IF shs = <<>> THEN r
    ELSE state_add_blocks(block_pipeline(r.run, r.tree, BlockOf(Head(shs))), Tail(shs))

\* the block files at or above the length filter, by height
new_length_sorted_min_filtered(blocks_dir, min_length_filter) ==
    InArrivalOrder({sh \in blocks_dir : Length(sh) >= min_length_filter})

highest(blocks_dir) ==
    CHOOSE x \in blocks_dir :
        \A y \in blocks_dir \ {x} :
            Length(x) > Length(y) \/ (Length(x) = Length(y) /\ HashRank(x) > HashRank(y))

\* the files reached from sh by following previous_state_hash, lowest first
RECURSIVE linked_chain(_, _)
linked_chain(blocks_dir, sh) ==
    IF sh \in blocks_dir THEN Append(linked_chain(blocks_dir, parent(sh)), sh) ELSE <<>>

\* canonical chain discovery: the chain below the highest file is taken as canonical once
\* it is canonical_threshold blocks long and comes first; the other files follow by height
new_with_canonical_chain_discovery(blocks_dir) ==
    IF blocks_dir = {} THEN <<>>
    ELSE LET found == linked_chain(blocks_dir, highest(blocks_dir))
             canonical == IF Len(found) >= canonical_threshold THEN found ELSE <<>>
         IN canonical \o InArrivalOrder(blocks_dir \ {canonical[i] : i \in 1..Len(canonical)})

\* the state before any file is read: New starts from the genesis state on an empty
\* store, Replay and Sync rebuild the witness tree of the store they are given
new_state(initialization_mode, d) ==
    IF initialization_mode = "New" THEN [run |-> Genesis, tree |-> NewTree]
    ELSE [run |-> Begin(d), tree |-> replay_events(NewTree, d, EventLog(d))]

initialize(initialization_mode, state, blocks_dir, min_length_filter) ==
    IF initialization_mode = "New"
    THEN state_add_blocks(state, new_with_canonical_chain_discovery(blocks_dir))
    ELSE state_add_blocks(state, new_length_sorted_min_filtered(blocks_dir, min_length_filter))

BlockFiles == StateHashes \ {MAINNET_GENESIS_HASH}
Lengths == {Length(sh) : sh \in StateHashes}

\* the indexer runs and ingests watched blocks until it is stopped
RunUntilStopped(block) ==
    /\ lastOp.op \in {"new", "ingest"}
    /\ Cardinality(Stored(db)) < MaxStoredAtRestart
    /\ Ingest(block)

Started(initialization_mode, state, blocks_dir, min_length_filter) ==
    /\ \E r \in {initialize(initialization_mode, state, blocks_dir, min_length_filter)} :
       /\ db' = r.run.d
       /\ tree' = r.tree
       /\ appended' = EventLog(r.run.d)
       /\ status' = IF r.run.ok THEN "running" ELSE "aborted"
       /\ lastOp' = [op |-> "initialize", mode |-> initialization_mode,
                     blocks_dir |-> blocks_dir, min_length_filter |-> min_length_filter,
                     stored |-> Stored(db), canonical_tip |-> tree.canonical_tip]
    /\ UNCHANGED <<pending, failures, tipChanges, lg>>

\* New starts on an empty store; Replay and Sync start on the store of an earlier run,
\* whose block files are still in the directory
StartNew ==
    /\ lastOp.op = "new"
    /\ \E state \in {new_state("New", db)}, blocks_dir \in SUBSET BlockFiles :
           Started("New", state, blocks_dir, 0)

StartReplay ==
    /\ lastOp.op \in {"new", "ingest"}
    /\ \E state \in {new_state("Replay", db)} :
           \E blocks_dir \in SUBSET BlockFiles, min_length_filter \in Lengths :
               /\ Stored(db) \ {MAINNET_GENESIS_HASH} \subseteq blocks_dir
               /\ Started("Replay", state, blocks_dir, min_length_filter)

StartSync ==
    /\ lastOp.op \in {"new", "ingest"}
    /\ \E state \in {new_state("Sync", db)} :
           \E blocks_dir \in SUBSET BlockFiles, min_length_filter \in Lengths :
               /\ Stored(db) \ {MAINNET_GENESIS_HASH} \subseteq blocks_dir
               /\ Started("Sync", state, blocks_dir, min_length_filter)

NextStartup ==
    \/ \E block \in Blocks : RunUntilStopped(block)
    \/ StartNew
    \/ StartReplay
    \/ StartSync

SpecStartup == Init /\ [][NextStartup]_vars

store_canonical_tip(d) == d["canonical_at_height"][to_be_bytes(max_canonical_height(d))]

nonce_value(nonce) == IF nonce.some THEN nonce.v ELSE 0

\* C20: while the diff of a block is applied to the ledger of its parent, every account
\* diff that sets an account's nonce sets it to a value greater than the nonce the
\* account held just before
C20_NonceMonotonic ==
    lg.pc = "block_applied" =>
        \A i \in DOMAIN lg.nonces :
            nonce_value(lg.nonces[i].after) > nonce_value(lg.nonces[i].before)

-----------------------------------------------------------------------------
(* The account store driven by balance-update batches on a freshly opened store *)

MaxBatches == 3

DBAccountBalanceUpdate(apply, unapply) == [apply |-> apply, unapply |-> unapply]

BatchInputs ==
    { DBAccountBalanceUpdate(<<CreateAccount("B62c"), Credit("B62c", 3)>>, <<>>),
      DBAccountBalanceUpdate(<<>>, <<CreateAccount("B62c"), Credit("B62c", 3)>>),
      DBAccountBalanceUpdate(<<CreateAccount("B62a"), CreateAccount("B62b")>>,
                             <<CreateAccount("B62c")>>),
      DBAccountBalanceUpdate(<<RemoveAccount("B62c")>>, <<>>),
      DBAccountBalanceUpdate(<<>>, <<RemoveAccount("B62c")>>),
      DBAccountBalanceUpdate(<<Credit("B62a", 2), Debit("B62b", 1)>>, <<>>),
      DBAccountBalanceUpdate(<<>>, <<CreateAccount("B62a"), CreateAccount("B62b")>>) }

\* the number of updates of one kind in a list
Tagged(updates, tag) == Cardinality({i \in DOMAIN updates : updates[i].tag = tag})

\* CreateAccount minus RemoveAccount over the applied list, the unapplied list with the
\* opposite sign
NetAccounts(updates) ==
    (Tagged(updates.apply, "CreateAccount") - Tagged(updates.apply, "RemoveAccount"))
    - (Tagged(updates.unapply, "CreateAccount") - Tagged(updates.unapply, "RemoveAccount"))

InitBatches ==
    /\ db = EmptyStore
    /\ tree = NewTree
    /\ status = "running"
    /\ lastOp = [op |-> "new"]
    /\ appended = <<>>
    /\ pending = <<>>
    /\ failures = 0
    /\ tipChanges = 0
    /\ lg = [pc |-> "batches", n |-> 0, net |-> 0, lowest |-> 0, unapplied |-> 0]

UpdateAccountBalances(updates) ==
    /\ lg.pc = "batches"
    /\ lg.n < MaxBatches
    /\ db' = update_account_balances(Begin(db), MAINNET_GENESIS_HASH, updates).d
    /\ lastOp' = [op |-> "update_account_balances", updates |-> updates]
    /\ lg' = [pc |-> "batches",
              n |-> lg.n + 1,
              net |-> lg.net + NetAccounts(updates),
              lowest |-> Min(lg.lowest, lg.net + NetAccounts(updates)),
              unapplied |-> lg.unapplied + Len(updates.unapply)]
    /\ UNCHANGED <<tree, status, appended, pending, failures, tipChanges>>

NextBatches == \E updates \in BatchInputs : UpdateAccountBalances(updates)

SpecBatches == InitBatches /\ [][NextBatches]_vars

-----------------------------------------------------------------------------
(* The fee-transfer-via-coinbase override and the coinbase part of a derived diff *)

\* the fee diffs of a derived diff, in order
RECURSIVE fee_diffs(_)
fee_diffs(diffs) ==
    IF diffs = <<>> THEN <<>>
    ELSE (IF Head(diffs).tag \in {"FeeTransfer", "FeeTransferViaCoinbase"}
          THEN <<Head(diffs)>> ELSE <<>>)
         \o fee_diffs(Tail(diffs))

\* the positions of a fee list at which the adjacent pair is the coinbase's fee transfer
pair_positions(fees, ft) ==
    {n \in 1..(Len(fees) - 1) : fees[n] = FeeTransfer(ft[1]) /\ fees[n + 1] = FeeTransfer(ft[2])}

C26_DerivationTotal ==
    /\ lg.pc = "derived" => lg.diff.ok
    /\ lg.pc = "derived_twice" => lg.again.ok

\* a derivation that returned a diff for a block whose coinbase has a fee transfer and
\* whose last fee diff is for the public key and the amount of that fee transfer's credit
C26_Witness ==
    /\ lg.pc = "derived" /\ lg.diff.ok /\ has_fee_transfer(lg.block)
    /\ fee_diffs(lg.diff.v.account_diffs) # <<>>
    /\ LET fees == fee_diffs(lg.diff.v.account_diffs) IN
           /\ fees[Len(fees)].tag = "FeeTransfer"
           /\ fees[Len(fees)].public_key = fee_transfer(lg.block)[1].public_key
           /\ fees[Len(fees)].amount = fee_transfer(lg.block)[1].amount

\* a fee transfer diff or its rewritten form
is_fee_transfer_of(diff, payment) ==
    diff = FeeTransfer(payment) \/ diff = FeeTransferViaCoinbase(payment)

\* C25: for every block whose coinbase is applied, the derived diff contains the Coinbase
\* diff and, for each fee transfer attached to the coinbase, the credit/debit pair of
\* that fee transfer
C25_CoinbaseAndFeeTransfers ==
    (lg.pc = "derived" /\ lg.diff.ok /\ is_coinbase_applied(lg.block)) =>
        LET diffs == lg.diff.v.account_diffs IN
        /\ \E n \in DOMAIN diffs :
               diffs[n] = Coinbase(lg.block.coinbase_receiver, coinbase_amount(lg.block))
        /\ \A i \in DOMAIN lg.block.kind.fee_transfers :
               lg.block.kind.fee_transfers[i].some =>
                   \E n \in 1..(Len(diffs) - 1) :
                       /\ is_fee_transfer_of(diffs[n],
                              CreditTo(lg.block.kind.fee_transfers[i].v.receiver_pk,
                                       lg.block.kind.fee_transfers[i].v.fee))
                       /\ is_fee_transfer_of(diffs[n + 1],
                              DebitNonce(lg.block.coinbase_receiver,
                                         lg.block.kind.fee_transfers[i].v.fee, None))

-----------------------------------------------------------------------------
(* The shape of the witness tree *)

\* the root branch and the dangling branches
branches(t) == {t.root_branch} \cup {t.dangling_branches[i] : i \in DOMAIN t.dangling_branches}

\* C27: in every branch of the witness tree, after any sequence of ingests and merges,
\* every node but the root of the branch is the child of a node of the branch whose state
\* hash is the child's parent hash, and the child's height in the tree and its
\* blockchain length are one more than the parent's
C27_ChildOneAboveParent ==
    \A branch \in branches(tree) :
        /\ InBranch(branch, branch.root)
        /\ \A child \in DOMAIN branch.nodes :
               child # branch.root =>
                   /\ InBranch(branch, BlockOf(child).previous_state_hash)
                   /\ branch.nodes[child] = branch.nodes[BlockOf(child).previous_state_hash] + 1
                   /\ BlockOf(child).blockchain_length
                          = BlockOf(BlockOf(child).previous_state_hash).blockchain_length + 1

\* a root branch that took in a dangling branch of two blocks, below a block that was
\* already in it
C27_Witness ==
    /\ status = "running"
    /\ \E i, j, k \in 1..Len(appended) :
          /\ i < j /\ j < k
          /\ appended[i].tag = "NewBlock" /\ appended[j].tag = "NewBlock"
          /\ appended[k].tag = "NewBlock"
          /\ parent(appended[i].state_hash) = appended[j].state_hash
          /\ parent(appended[j].state_hash) = appended[k].state_hash
          /\ InBranch(tree.root_branch, appended[i].state_hash)
          /\ tree.root_branch.nodes[appended[i].state_hash] >= 2

\* C28: after every ingest, no dangling branch has a root whose parent is a node of the
\* root branch or of another dangling branch
C28_NoMergeLeftUndone ==
    \A i \in DOMAIN tree.dangling_branches :
        /\ ~InBranch(tree.root_branch, parent(tree.dangling_branches[i].root))
        /\ \A j \in DOMAIN tree.dangling_branches :
               j # i => ~InBranch(tree.dangling_branches[j], parent(tree.dangling_branches[i].root))

\* two dangling branches rooted at the two children of one block were both spliced by
\* the ingest of that block
C28_Witness ==
    /\ status = "running"
    /\ \E i, j, k \in 1..Len(appended) :
          /\ i < k /\ j < k /\ i # j
          /\ appended[i].tag = "NewBlock" /\ appended[j].tag = "NewBlock"
          /\ appended[k].tag = "NewBlock"
          /\ parent(appended[i].state_hash) = appended[k].state_hash
          /\ parent(appended[j].state_hash) = appended[k].state_hash
          /\ InBranch(tree.root_branch, appended[i].state_hash)
          /\ InBranch(tree.root_branch, appended[j].state_hash)

-----------------------------------------------------------------------------
(* A signal while a block is being added: the signal task runs beside the task that
   adds blocks, and add_block reaches the store one put_cf at a time *)

\* add_block is called: its writes are on their way to the store
BeginAddBlock(block) ==
    /\ status = "running"
    /\ pending = <<>>
    /\ ~block_present(db, block.state_hash) /\ Cardinality(Stored(db)) < MaxBlocks
    /\ pending' = add_block(Begin(db), block).ws
    /\ lg' = [pc |-> "adding", block |-> block, before |-> db]
    /\ lastOp' = [op |-> "add_block", state_hash |-> block.state_hash]
    /\ UNCHANGED <<db, tree, status, appended, failures, tipChanges>>

\* the next put_cf of the running add_block reaches the store
AddBlockWrite ==
    /\ status = "running"
    /\ pending # <<>>
    /\ db' = ApplyWrite(db, Head(pending))
    /\ appended' = appended \o EventsOf(<<Head(pending)>>)
    /\ pending' = Tail(pending)
    /\ UNCHANGED <<tree, status, lastOp, failures, tipChanges, lg>>

\* wait_for_signal: SIGTERM exits with 100, SIGINT with 101, at once
wait_for_signal(sig) ==
    /\ status = "running"
    /\ status' = "exited"
    /\ lastOp' = [op |-> "exit", code |-> IF sig = "SIGTERM" THEN 100 ELSE 101,
                  in_flight |-> pending # <<>>]
    /\ UNCHANGED <<db, tree, appended, pending, failures, tipChanges, lg>>

NextSignal ==
    \/ \E block \in Blocks : BeginAddBlock(block)
    \/ AddBlockWrite
    \/ wait_for_signal("SIGTERM")
    \/ wait_for_signal("SIGINT")

SpecSignal == Init /\ [][NextSignal]_vars

\* C30: when SIGINT or SIGTERM arrives while a block is being added, the store after the
\* exit holds either all the rows and the event of that block or none of them
C30_ExitLeavesAllOrNothing ==
    (status = "exited" /\ lg.pc = "adding") =>
        \/ db = lg.before
        \/ db = add_block(Begin(lg.before), lg.block).d

-----------------------------------------------------------------------------
(* The watched directory: block files arrive, well-formed or not *)

MaxParseErrors == 2

\* a file of the watched directory: whether its name is that of a block file, the state
\* hash in the name, and whether its contents are the JSON of that block
BlockFile(valid_name, state_hash, contents) ==
    [valid_name |-> valid_name, state_hash |-> state_hash, contents |-> contents]

WatchedFiles ==
    {BlockFile(TRUE, sh, "json") : sh \in StateHashes}
    \cup {BlockFile(TRUE, sh, "malformed") : sh \in {"3NA1", "3NA2", "3NB2"}}
    \cup {BlockFile(FALSE, "3NA1", "json")}

is_valid_block_file(path) == path.valid_name

\* variant: the contents are not looked at
parse_file_unchecked(path) ==
    IF is_valid_block_file(path) THEN Ok(BlockOf(path.state_hash))
    ELSE Err("Unable to parse invalid precomputed block")

\* PrecomputedBlock::parse_file: the state hash comes from the file name, the rest from
\* the contents
parse_file(path) ==
    IF is_valid_block_file(path)
    THEN IF path.contents = "json" THEN Ok(BlockOf(path.state_hash))
         ELSE Err("from_log_contents")
    ELSE Err("Unable to parse invalid precomputed block")

\* run: one path of a file event of the watched block directory
WatchEvent(path) ==
    /\ status = "running"
    /\ lg.pc \in {"idle", "watching"}
    /\ block_present(db, path.state_hash) \/ Cardinality(Stored(db)) < MaxBlocks
    /\ (path.contents = "malformed" \/ ~path.valid_name)
           => (IF lg.pc = "idle" THEN 0 ELSE lg.parse_errors) < MaxParseErrors
    /\ \E parsed \in {IF is_valid_block_file(path) THEN parse_file(path) ELSE Err("skipped")} :
          IF parsed.ok
          THEN \E r \in {block_pipeline(Begin(db), tree, parsed.v)} :
                  /\ db' = r.run.d
                  /\ tree' = r.tree
                  /\ appended' = EventLog(r.run.d)
                  /\ status' = IF r.run.ok THEN "running" ELSE "aborted"
                  /\ lg' = [pc |-> "watching",
                            parse_errors |-> IF lg.pc = "idle" THEN 0 ELSE lg.parse_errors]
          ELSE /\ lg' = [pc |-> "watching",
                         parse_errors |-> (IF lg.pc = "idle" THEN 0 ELSE lg.parse_errors) + 1]
               /\ UNCHANGED <<db, tree, appended, status>>
    /\ lastOp' = [op |-> "watch", path |-> path,
                  duplicate |-> block_present(db, path.state_hash)]
    /\ UNCHANGED <<pending, failures, tipChanges>>

NextWatch == \E path \in WatchedFiles : WatchEvent(path)

SpecWatch == Init /\ [][NextWatch]_vars

\* C31: when a watched block file fails to parse, no store row, no event and no node of
\* the witness tree changes, and the indexer is still running to process the next files
C31_ParseErrorChangesNothing ==
    [][(lastOp'.op = "watch" /\ lastOp'.path.valid_name /\ lastOp'.path.contents = "malformed")
          => (db' = db /\ tree' = tree /\ appended' = appended /\ status' = "running")]_vars

\* a block file was processed and its block stored after two files had failed to parse
C31_Witness ==
    /\ lastOp.op = "watch" /\ status = "running"
    /\ lastOp.path.contents = "json" /\ lastOp.path.valid_name
    /\ lg.pc = "watching" /\ lg.parse_errors = MaxParseErrors
    /\ ~lastOp.duplicate /\ block_present(db, lastOp.path.state_hash)

-----------------------------------------------------------------------------
(* The control socket: the IPC actor takes state updates and accepts connections in one
   select loop; every connection is handled by a task of its own *)

MaxUpdates == 2
MaxConnections == 2

\* the values the actor holds: each is named by the number of the state update it came
\* with, 0 for the values IpcActor::new was given
IpcActor(pc, best_tip, ledger, summary, store) ==
    [pc |-> pc, best_tip |-> best_tip, ledger |-> ledger, summary |-> summary, store |-> store]

\* a request: the command, the bytes read up to the first 0 byte
Requests ==
    {"account", "best_chain", "best_ledger", "ledger", "ledger_at_height", "summary",
     "shutdown", "blocks", "", "EOF"}

\* handle_conn: what is written to the connection and what the handler returns
handle_conn(request, db_, best_tip, ledger, summary) ==
    CASE request = "EOF" -> [written |-> <<>>, result |-> Err("Unexpected EOF")]
      [] request = "account" ->
            [written |-> <<[account |-> ledger]>>, result |-> Ok("")]
      [] request = "best_chain" ->
            [written |-> <<[best_chain |-> <<db_, best_tip>>]>>, result |-> Ok("")]
      [] request = "best_ledger" ->
            [written |-> <<[best_ledger |-> ledger]>>, result |-> Ok("")]
      [] request = "ledger" ->
            [written |-> <<[ledger |-> db_]>>, result |-> Ok("")]
      [] request = "ledger_at_height" ->
            [written |-> <<[ledger_at_height |-> <<db_, best_tip>>]>>, result |-> Ok("")]
      [] request = "summary" ->
            [written |-> <<IF summary = 0 THEN [text |-> "No summary available yet"]
                           ELSE [summary |-> summary]>>,
             result |-> Ok("")]
      [] request = "shutdown" ->
            [written |-> <<[text |-> "Shutting down the Mina Indexer daemon..."]>>,
             result |-> Ok("exit")]
      [] OTHER -> [written |-> <<>>, result |-> Err("Malformed request")]

\* variant: a client is accepted while the update arm is between two of its writes
select_ready_during_update(actor) == TRUE

\* the select loop is polled again only when the arm it took has run to its end
select_ready(actor) == actor.pc = "select"

InitIpc ==
    /\ db = Genesis.d
    /\ tree = NewTree
    /\ status = "running"
    /\ lastOp = [op |-> "new"]
    /\ appended = <<>>
    /\ pending = <<>>
    /\ failures = 0
    /\ tipChanges = 0
    /\ lg = [actor |-> IpcActor("select", 0, 0, 0, 0), sent |-> 0, conns |-> <<>>]

\* state_recv.recv() yields the next update: the arm starts and sets the best tip
StateRecv ==
    /\ status = "running"
    /\ select_ready(lg.actor)
    /\ lg.sent < MaxUpdates
    /\ lg' = [lg EXCEPT !.sent = @ + 1,
                        !.actor = [@ EXCEPT !.pc = "ledger", !.best_tip = lg.sent + 1]]
    /\ lastOp' = [op |-> "state_recv"]
    /\ UNCHANGED <<db, tree, status, appended, pending, failures, tipChanges>>

\* the arm goes on after an await: ledger, then summary, then store
SetIpcState ==
    /\ status = "running"
    /\ lg.actor.pc \in {"ledger", "summary", "store"}
    /\ lg' = [lg EXCEPT !.actor =
                  CASE @.pc = "ledger" -> [@ EXCEPT !.pc = "summary", !.ledger = lg.sent]
                    [] @.pc = "summary" -> [@ EXCEPT !.pc = "store", !.summary = lg.sent]
                    [] OTHER -> [@ EXCEPT !.pc = "select", !.store = lg.sent]]
    /\ lastOp' = [op |-> "set_ipc_state"]
    /\ UNCHANGED <<db, tree, status, appended, pending, failures, tipChanges>>

\* listener.accept() yields a client: the four values are cloned and a task is spawned
Accept(request) ==
    /\ status = "running"
    /\ select_ready(lg.actor)
    /\ Len(lg.conns) < MaxConnections
    /\ lg' = [lg EXCEPT !.conns =
                  Append(@, [request |-> request, open |-> TRUE, written |-> <<>>,
                             store |-> lg.actor.store, best_tip |-> lg.actor.best_tip,
                             ledger |-> lg.actor.ledger, summary |-> lg.actor.summary])]
    /\ lastOp' = [op |-> "accept"]
    /\ UNCHANGED <<db, tree, status, appended, pending, failures, tipChanges>>

\* the spawned task runs handle_conn and drops the connection
HandleConn(i) ==
    /\ status = "running"
    /\ i \in DOMAIN lg.conns /\ lg.conns[i].open
    /\ \E r \in {handle_conn(lg.conns[i].request, lg.conns[i].store, lg.conns[i].best_tip,
                               lg.conns[i].ledger, lg.conns[i].summary)} :
          /\ lg' = [lg EXCEPT !.conns[i].open = FALSE, !.conns[i].written = r.written]
          /\ status' = IF r.result.ok /\ r.result.v = "exit" THEN "exited" ELSE "running"
          /\ lastOp' = [op |-> "handle_conn", result |-> r.result]
    /\ UNCHANGED <<db, tree, appended, pending, failures, tipChanges>>

NextIpc ==
    \/ StateRecv
    \/ SetIpcState
    \/ \E request \in Requests : Accept(request)
    \/ \E i \in 1..MaxConnections : HandleConn(i)

SpecIpc == InitIpc /\ [][NextIpc]_vars

KnownCommands ==
    {"account", "best_chain", "best_ledger", "ledger", "ledger_at_height", "summary",
     "shutdown"}

\* C32: a request whose command is not one of the known commands receives exactly one
\* response, a malformed-request error, before the connection is closed
C32_UnknownCommandAnswered ==
    \A i \in DOMAIN lg.conns :
        (~lg.conns[i].open /\ lg.conns[i].request \notin KnownCommands \cup {"EOF"})
            => /\ Len(lg.conns[i].written) = 1
               /\ lg.conns[i].written[1] = [error |-> "Malformed request"]

\* C38: the best tip, ledger, summary and store handle a connection handler is given
\* all come from one and the same state update
C38_HandlerSeesOneUpdate ==
    \A i \in DOMAIN lg.conns :
        /\ lg.conns[i].best_tip = lg.conns[i].store
        /\ lg.conns[i].ledger = lg.conns[i].store
        /\ lg.conns[i].summary = lg.conns[i].store

\* two connections, the first given the values of the first update and the second
\* those of the second update, both answered
C38_Witness ==
    /\ Len(lg.conns) = 2
    /\ lg.conns[1].store = 1 /\ lg.conns[2].store = 2
    /\ ~lg.conns[2].open /\ lg.conns[2].written = <<[best_chain |-> <<2, 2>>]>>
    /\ ~lg.conns[1].open /\ lg.conns[1].written = <<[summary |-> 1]>>

-----------------------------------------------------------------------------
(* Balance arithmetic at the limits of the integer type *)

\* the width of a balance: the 64 bits of u64 are scaled down to AmountBits bits
AmountBits == 16
u64_MAX == 2 ^ AmountBits - 1

AmountInputs == {0, 1, 2, u64_MAX \div 2, u64_MAX - 1, u64_MAX}

saturating_add(a, b) == IF a + b > u64_MAX THEN u64_MAX ELSE a + b

\* the + of two u64: a panic where the build checks overflow (debug), wrapping where
\* it does not (release)
u64_add(a, b, overflow_checks) ==
    IF a + b <= u64_MAX THEN Ok(a + b)
    ELSE IF overflow_checks THEN Panic("attempt to add with overflow")
    ELSE Ok((a + b) % (u64_MAX + 1))

\* Amount + Amount, Amount + u64 (ledger engine)
amount_add(lhs, rhs) == Ok(saturating_add(lhs, rhs))

\* Amount - Amount, Amount - u64 (ledger engine)
amount_sub(lhs, rhs) == Ok(saturating_sub(lhs, rhs))

\* Amount + i64 (ledger engine)
amount_add_i64(lhs, rhs) ==
    IF rhs > 0 THEN Ok(saturating_add(lhs, rhs)) ELSE Ok(saturating_sub(lhs, -rhs))

\* update_account_balances: the balance written for a signed amount
stored_balance(balance, amount, overflow_checks) ==
    IF amount > 0 THEN u64_add(balance, amount, overflow_checks)
    ELSE Ok(saturating_sub(balance, -amount))

InitAmount ==
    /\ db = Genesis.d
    /\ tree = NewTree
    /\ status = "running"
    /\ lastOp = [op |-> "new"]
    /\ appended = <<>>
    /\ pending = <<>>
    /\ failures = 0
    /\ tipChanges = 0
    /\ \E balance \in AmountInputs, amount \in AmountInputs, overflow_checks \in BOOLEAN :
          lg = [pc |-> "amounts", balance |-> balance, amount |-> amount,
                overflow_checks |-> overflow_checks]

\* one operation of the ledger engine on the balance
AmountOp(op) ==
    /\ lg.pc = "amounts"
    /\ lg' = [pc |-> "ledger", op |-> op, balance |-> lg.balance, amount |-> lg.amount,
              result |-> CASE op = "add" -> amount_add(lg.balance, lg.amount)
                           [] op = "sub" -> amount_sub(lg.balance, lg.amount)
                           [] op = "add_i64" -> amount_add_i64(lg.balance, lg.amount)
                           [] OTHER -> amount_add_i64(lg.balance, -lg.amount)]
    /\ UNCHANGED <<db, tree, status, lastOp, appended, pending, failures, tipChanges>>

\* the balance the store writes for the amount, credited or debited
StoredBalance(sign) ==
    /\ lg.pc = "amounts"
    /\ lg' = [pc |-> "store", op |-> IF sign > 0 THEN "add_i64" ELSE "sub_i64",
              balance |-> lg.balance, amount |-> lg.amount,
              result |-> stored_balance(lg.balance, sign * lg.amount, lg.overflow_checks)]
    /\ UNCHANGED <<db, tree, status, lastOp, appended, pending, failures, tipChanges>>

NextAmount ==
    \/ \E op \in {"add", "sub", "add_i64", "sub_i64"} : AmountOp(op)
    \/ \E sign \in {1, -1} : StoredBalance(sign)

SpecAmount == InitAmount /\ [][NextAmount]_vars

\* the sum or difference, kept within 0 and the maximum of the type
Saturated(op, balance, amount) ==
    IF op \in {"add", "add_i64"} THEN Min(balance + amount, u64_MAX)
    ELSE Max(balance - amount, 0)

\* C33: all balance arithmetic saturates, in the ledger engine and in the stored balance
\* updates alike: no operation aborts, an addition stops at the maximum of the type and
\* a subtraction at zero
C33_BalanceArithmeticSaturates ==
    lg.pc \in {"ledger", "store"} =>
        /\ lg.result.ok
        /\ lg.result.v = Saturated(lg.op, lg.balance, lg.amount)

-----------------------------------------------------------------------------
(* The best-tip pointer and the NewBestTip events *)

\* the state hash of the latest NewBestTip event of a log, None for a log without one
latest_best_tip_event(log) ==
    IF \E i \in DOMAIN log : log[i].tag = "NewBestTip"
    THEN Some(log[CHOOSE i \in DOMAIN log :
                     /\ log[i].tag = "NewBestTip"
                     /\ \A j \in DOMAIN log : log[j].tag = "NewBestTip" => j <= i].state_hash)
    ELSE None

-----------------------------------------------------------------------------
(* The rows of a block and its NewBlock event *)

\* the block is listed under the key at one of the positions the count covers
listed(d, cf, key, n, sh) ==
    \E i \in 0..(n - 1) : Get(d[cf], key \o "-" \o ToString(i)) = Some(sh)

\* the rows of the block that are keyed by its state hash, its sort keys and its entries
\* in the per-height, per-slot and per-key lists
rows_but_pair_present(d, block) ==
    /\ \A cf \in {"blocks", "block_epoch", "block_comparison", "block_height",
                   "block_parent_hash", "block_genesis_state_hash", "block_coinbase_receiver",
                   "account_balance_updates", "block_version", "user_commands",
                   "internal_commands", "snark_work"} : Has(d[cf], block.state_hash)
    /\ Has(d["blocks_height_sort"], block_height_key(block))
    /\ Has(d["blocks_global_slot_sort"], block_global_slot_key(block))
    /\ listed(d, "blocks_at_height", ToString(block.blockchain_length),
              get_num_blocks_at_height(d, block.blockchain_length), block.state_hash)
    /\ listed(d, "blocks_at_global_slot", ToString(block.global_slot_since_genesis),
              get_num_blocks_at_slot(d, block.global_slot_since_genesis), block.state_hash)
    /\ \A i \in DOMAIN block.all_public_keys :
           listed(d, "blocks", block.all_public_keys[i],
                  get_num_blocks_at_public_key(d, block.all_public_keys[i]), block.state_hash)

\* the two rows of the height/slot pair: the slot's heights and the height's slots
pair_present(d, block) ==
    /\ Contains(GetOr(d["block_global_slot_to_heights"],
                      to_be_bytes(block.global_slot_since_genesis), <<>>),
                block.blockchain_length)
    /\ Contains(GetOr(d["block_height_to_global_slots"],
                      to_be_bytes(block.blockchain_length), <<>>),
                block.global_slot_since_genesis)

\* every row add_block writes for the block, the event aside
rows_present(d, block) == rows_but_pair_present(d, block) /\ pair_present(d, block)

\* C35: whenever the event log holds the NewBlock event of a block, every other row of
\* that block (height, parent, slot, balance updates, the lists, commands, SNARK work)
\* is in the store, at every point in time, also after an add that stopped part-way
C35_EventAfterRows ==
    \A i \in DOMAIN EventLog(db) :
        EventLog(db)[i].tag = "NewBlock"
            => rows_present(db, BlockOf(EventLog(db)[i].state_hash))

\* the same with the rows of the height/slot pair left out
EventAfterRowsButPair ==
    \A i \in DOMAIN EventLog(db) :
        EventLog(db)[i].tag = "NewBlock"
            => rows_but_pair_present(db, BlockOf(EventLog(db)[i].state_hash))

\* the process exited while an add was part-way, after an earlier add wrote its event
ExitedPartWayAfterEvent ==
    /\ status = "exited" /\ lastOp.in_flight
    /\ lg.pc = "adding" /\ block_present(db, lg.block.state_hash)
    /\ ~rows_but_pair_present(db, lg.block)
    /\ \E i \in DOMAIN EventLog(db) :
          EventLog(db)[i].tag = "NewBlock" /\ EventLog(db)[i].state_hash # MAINNET_GENESIS_HASH

-----------------------------------------------------------------------------
(* Adding a block again after an add that failed part-way *)

\* the log holds the NewBlock event of the block
new_block_event_present(d, sh) ==
    \E i \in DOMAIN EventLog(d) :
        EventLog(d)[i].tag = "NewBlock" /\ EventLog(d)[i].state_hash = sh

\* C36: when add_block returns without error for a block whose row was already in the
\* store, as on the second ingest after an add that failed part-way, every index row of
\* the block and its NewBlock event are in the store
C36_SecondIngestCompletesAdd ==
    (lastOp.op = "add_block" /\ ~lastOp.failed /\ lastOp.duplicate)
        => /\ rows_but_pair_present(db, BlockOf(lastOp.state_hash))
           /\ new_block_event_present(db, lastOp.state_hash)

-----------------------------------------------------------------------------
(* Blocks that create accounts: the account-creation fee *)

\* payments of B62a to the new key B62c and to B62b, applied and failed
CreationCommandInputs ==
    { UserCommand("Payment", "B62a", cmd.receiver, cmd.amount, 1, nonce, cmd.applied) :
        cmd \in { [receiver |-> "B62c", amount |-> 20, applied |-> TRUE],
                  [receiver |-> "B62c", amount |-> 0, applied |-> TRUE],
                  [receiver |-> "B62b", amount |-> 3, applied |-> TRUE],
                  [receiver |-> "B62c", amount |-> 20, applied |-> FALSE] },
        nonce \in 0..(MaxCommands - 1) }

CreationCommandSeqs ==
    {cmds \in UNION {[1..n -> CreationCommandInputs] : n \in 0..MaxCommands} :
        NonceOrdered(cmds)}

\* the public key takes part in the block
involves(block, pk) ==
    \/ block.coinbase_receiver = pk
    \/ \E i \in DOMAIN commands(block) :
          commands(block)[i].source = pk \/ commands(block)[i].receiver = pk
    \/ \E i \in DOMAIN block.snarks : block.snarks[i].prover = pk

\* blocks whose accounts-created map names only keys that take part in the block
CreationInputs ==
    { block \in
        { StagedLedgerDiff("B62a", FALSE, pre, <<>>, snarks, One(None), created) :
            pre \in CreationCommandSeqs,
            snarks \in {<<>>, <<SnarkWorkSummary("B62c", 1)>>, <<SnarkWorkSummary("B62c", 0)>>},
            created \in SUBSET {"B62c"} } :
        \A pk \in block.accounts_created : involves(block, pk) }

InitCreation ==
    /\ db = Genesis.d
    /\ tree = NewTree
    /\ status = "running"
    /\ lastOp = [op |-> "new"]
    /\ appended = EventsOf(Genesis.ws)
    /\ pending = <<>>
    /\ failures = 0
    /\ tipChanges = 0
    /\ \E block \in CreationInputs : lg = [pc |-> "block", block |-> block]

SpecCreation == InitCreation /\ [][NextDiff]_vars

\* the call stopped in a panic
aborted(r) == ~r.ok /\ "panic" \in DOMAIN r

\* C37: applying the diff derived from a block does not abort: every public key of
\* new_pk_balances has an account when the creation fee is charged, also when the
\* key's only command was a zero-amount payment or was left out of the account diffs
C37_ApplyNeverAborts ==
    lg.pc = "block_applied" => ~aborted(lg.accounts)

\* a block that creates B62c with a payment of a positive amount: the fee is charged
CreationFeeCharged ==
    /\ lg.pc = "block_applied" /\ lg.accounts.ok
    /\ lg.block.accounts_created = {"B62c"}
    /\ lg.accounts.v["B62c"].balance = 20 - MAINNET_ACCOUNT_CREATION_FEE

-----------------------------------------------------------------------------
(* Looking up the slots of a height and the heights of a slot *)

\* the values of a looked-up list; no row is no value
values_of(found) == IF found.some THEN {found.v[i] : i \in DOMAIN found.v} ELSE {}

added_blocks(d) == {block \in Blocks : block_present(d, block.state_hash)}

\* C39: after block adds none of which failed, the slots looked up for a height are
\* exactly the global slots of the added blocks of that height, and the heights looked
\* up for a slot are exactly the heights of the added blocks of that slot
C39_PairLookupsExact ==
    failures = 0 =>
        /\ \A block \in Blocks :
              values_of(get_global_slots_from_height(db, block.blockchain_length))
                  = {b.global_slot_since_genesis :
                       b \in {a \in added_blocks(db) :
                                a.blockchain_length = block.blockchain_length}}
        /\ \A block \in Blocks :
              values_of(get_block_heights_from_global_slot(db, block.global_slot_since_genesis))
                  = {b.blockchain_length :
                       b \in {a \in added_blocks(db) :
                                a.global_slot_since_genesis = block.global_slot_since_genesis}}

-----------------------------------------------------------------------------
(* The ordering of the blocks of the witness tree *)

MaxTreeHeight == 2

\* a block of the witness tree, with its height in the branch
Block(state_hash, height) == [state_hash |-> state_hash, height |-> height]

BlockInputs == {Block(state_hash, height) : state_hash \in {"3NA1", "3NB2", "3NC1"},
                                            height \in 0..MaxTreeHeight}

\* Ord::cmp on Block
cmp(self, other) ==
    IF self.state_hash = other.state_hash THEN "Equal"
    ELSE IF self.height > other.height THEN "Greater"
    ELSE "Less"

\* two blocks, the same block where the state hashes are the same
InitOrder ==
    /\ db = Genesis.d
    /\ tree = NewTree
    /\ status = "running"
    /\ lastOp = [op |-> "new"]
    /\ appended = <<>>
    /\ pending = <<>>
    /\ failures = 0
    /\ tipChanges = 0
    /\ \E a \in BlockInputs, b \in BlockInputs :
          /\ a.state_hash = b.state_hash => a = b
          /\ lg = [pc |-> "blocks", a |-> a, b |-> b]

\* a.cmp(b) and b.cmp(a), as a sort calls them
Compare ==
    /\ lg.pc = "blocks"
    /\ lg' = [pc |-> "compared", a |-> lg.a, b |-> lg.b,
              ab |-> cmp(lg.a, lg.b), ba |-> cmp(lg.b, lg.a)]
    /\ UNCHANGED <<db, tree, status, lastOp, appended, pending, failures, tipChanges>>

NextOrder == Compare

SpecOrder == InitOrder /\ [][NextOrder]_vars

\* C40: the ordering on blocks is a consistent total order: when a compares less than b,
\* b compares greater than a, and two blocks compare equal only when they have the same
\* state hash
C40_ConsistentTotalOrder ==
    lg.pc = "compared" =>
        /\ lg.ab = "Less" => lg.ba = "Greater"
        /\ lg.ab = "Equal" => lg.a.state_hash = lg.b.state_hash

====
